---------------------------- MODULE Spec2Model ----------------------------
(***************************************************************************)
(* ClawJudge on-chain protocol: EscrowJudge (funds and bounty lifecycle),  *)
(* CommitReveal (sealed two-phase voting) and the part of JudgeRegistry    *)
(* that EscrowJudge reads.  Every public function is one action; a call    *)
(* that reverts changes nothing (EVM semantics), so a rejected call is a   *)
(* call whose action is not enabled.                                       *)
(*                                                                         *)
(* Fields that no contract ever reads back (Bounty.createdAt,              *)
(* Commit.timestamp) are not kept.  Amounts are plain integers counted in  *)
(* gwei (the Solidity unit gwei, 10^9 wei, is 1 here), so that amounts     *)
(* below and above the fixed deduction of _estimateGasCost are both drawn. *)
(*                                                                         *)
(* The contracts are followed unpaused and with the treasury of the        *)
(* constructor: the owner's pause, unpause and updateTreasury, and         *)
(* CommitReveal.setEscrowJudge, are not among the actions.  JudgeRegistry  *)
(* appears with the five judges of the fixtures registered and active.     *)
(*                                                                         *)
(* JudgeSelection (panel drawing) and the whole of JudgeRegistry have      *)
(* specifications of their own further down (SpecSelect, SpecRegistry).    *)
(* JudgeSelection keeps the references of the deployment script (its       *)
(* judgeRegistry is the registry, its escrowJudge is EscrowJudge); its     *)
(* posterBounties and workerBounties lists are written and never read by   *)
(* any contract, and are not kept.                                         *)
(***************************************************************************)
EXTENDS Integers, Sequences, FiniteSets, TLC

\* ------------------------------------------------------------ bounds
MaxDays     == 3          \* block.timestamp runs from 0 to MaxDays days
MaxSalt     == 2          \* salts 1 .. MaxSalt are drawn for reveals
MaxSeed     == 7          \* random seeds 0 .. MaxSeed are drawn for panel selection
MaxCases    == 11         \* recordAgreement is followed up to MaxCases cases a pair
MaxAgreed   == 51         \* a judge is followed up to MaxAgreed verdicts with the consensus
MaxMinority == 10         \* and up to MaxMinority verdicts against it
MaxMonths   == 1          \* the registry is followed for MaxMonths inactivity periods
MaxResets   == 2          \* where stakes are topped up: up to MaxResets verdicts with the consensus
MaxDissent  == 12         \* and up to MaxDissent verdicts against it
MaxStreak   == 6          \* beside a second judge: up to MaxStreak verdicts against the consensus

\* ------------------------------------------------------------ program constants
FEE_BASIS_POINTS         == 200
BASIS_POINTS_DENOMINATOR == 10000
DISPUTE_WINDOW           == 7 * 86400
MIN_JUDGES               == 5
SUPERMAJORITY_THRESHOLD  == 4
ONE_DAY                  == 86400
gwei                     == 1
MINIMUM_STAKE            == 50 * 1000000
INITIAL_REPUTATION       == 500
MAX_REPUTATION           == 1000
MIN_REPUTATION           == 0
REPUTATION_DECAY_RATE    == 5
SLASH_PERCENTAGE         == 10
CONSECUTIVE_MINORITY_THRESHOLD == 3
REPUTATION_THRESHOLD_LOW == 300
INACTIVITY_PERIOD        == 30 * 86400
PANEL_SIZE               == 5
EXPANDED_PANEL_SIZE      == 9
MAX_AGREEMENT_RATE       == 90

\* ------------------------------------------------------------ addresses
ZeroAddr          == "0x0"
Owner             == "owner"
TreasuryAddr      == "treasury"
Alice             == "alice"
Bob               == "bob"
JudgeAddrs        == {"j1", "j2", "j3", "j4", "j5"}
EscrowJudgeAddr   == "EscrowJudge"
JudgeRegistryAddr == "JudgeRegistry"
CommitRevealAddr  == "CommitReveal"
JudgeSelectionAddr == "JudgeSelection"
\* judge6 .. judge9 of the JudgeSelection fixture
ReserveJudges     == {"j6", "j7", "j8", "j9"}
Accounts          == {Owner, TreasuryAddr, Alice, Bob} \cup JudgeAddrs
Holders           == Accounts \cup {EscrowJudgeAddr}
\* the accounts that call CommitReveal in the model (the per-judge mappings of a
\* panel and of a bounty's commits are kept for these keys)
Voters            == JudgeAddrs \cup {Bob}
\* the keys kept for JudgeRegistry's and JudgeSelection's per-address mappings
RegistryAccounts  == Accounts \cup ReserveJudges

ETH    == ZeroAddr
USDC   == "usdc"
Tokens == {ETH, USDC}

\* The ids createBounty may hand out: the model follows one bounty through its
\* whole life (every reference to "the bounty" in a claim is to bounty 0).
BountyIds == {0}

\* enum BountyStatus, enum Verdict
BountyStatus == {"Pending", "Submitted", "Judging", "Reveal", "Completed", "Disputed", "Cancelled"}
Verdict      == {"None", "Pass", "Partial", "Fail"}

VARIABLES
    now,               \* block.timestamp
    balance,           \* balance[token][holder]: ETH and USDC holdings
    treasury,          \* EscrowJudge.treasury
    judgeRegistry,     \* EscrowJudge.judgeRegistry (address reference)
    commitReveal,      \* EscrowJudge.commitReveal (address reference)
    escrowPaused,      \* EscrowJudge's Pausable flag
    _status,           \* EscrowJudge's ReentrancyGuard flag
    call,              \* the nonReentrant call in progress: the transfers it has
                       \* yet to make and the recipient that holds control
    nextBountyId,      \* EscrowJudge.nextBountyId
    bounties,          \* EscrowJudge.bounties
    panels,            \* EscrowJudge.panels
    disputes,          \* EscrowJudge.disputes
    escrowJudge,       \* CommitReveal.escrowJudge (address reference)
    crPaused,          \* CommitReveal's Pausable flag
    bountyCommits,     \* CommitReveal.bountyCommits
    judges,            \* JudgeRegistry.judges
    judgeList,         \* JudgeRegistry.judgeList
    registryEscrowJudge, \* JudgeRegistry.escrowJudge (address reference)
    totalActiveJudges, \* JudgeRegistry.totalActiveJudges
    judgePairHistory,  \* JudgeSelection.judgePairHistory
    judgeServedOnBounty \* JudgeSelection.judgeServedOnBounty

escrowVars   == <<treasury, judgeRegistry, commitReveal, escrowPaused, _status, call,
                  nextBountyId,
                  bounties, panels, disputes>>
crVars       == <<escrowJudge, crPaused, bountyCommits>>
registryVars == <<judges, judgeList, registryEscrowJudge, totalActiveJudges>>
selectionVars == <<judgePairHistory, judgeServedOnBounty>>
vars         == <<now, balance, escrowVars, crVars, registryVars, selectionVars>>


\* ------------------------------------------------------------ zero values
\* Solidity mappings return the zero value of the struct for an unset key.
ZeroBounty ==
    [poster |-> ZeroAddr, worker |-> ZeroAddr, token |-> ZeroAddr, amount |-> 0,
     deadline |-> 0, judgeDeadline |-> 0, status |-> "Pending",
     requirementsHash |-> 0, submissionHash |-> 0, partialPercentage |-> 0,
     feeAmount |-> 0]

ZeroPanel ==
    [judges |-> << >>, commitDeadline |-> 0, revealDeadline |-> 0,
     commitPhaseComplete |-> FALSE, revealPhaseComplete |-> FALSE,
     hasCommitted |-> [a \in Voters |-> FALSE],
     hasRevealed |-> [a \in Voters |-> FALSE],
     verdicts |-> [a \in Voters |-> "None"],
     partialPercentages |-> [a \in Voters |-> 0]]

ZeroDispute ==
    [bountyId |-> 0, createdAt |-> 0, arbitrationDeadline |-> 0, arbitrator |-> ZeroAddr,
     resolved |-> FALSE, finalVerdict |-> "None", finalPartialPercentage |-> 0]

ZeroCommit == [commitHash |-> 0, exists |-> FALSE]
ZeroReveal == [verdict |-> "None", partialPercentage |-> 0, salt |-> 0, exists |-> FALSE]

ZeroBountyCommits ==
    [commits |-> [a \in Voters |-> ZeroCommit],
     reveals |-> [a \in Voters |-> ZeroReveal],
     commitCount |-> 0, revealCount |-> 0,
     commitPhaseActive |-> FALSE, revealPhaseActive |-> FALSE]

ZeroJudge ==
    [stakedAmount |-> 0, reputation |-> 0, lastActivity |-> 0, totalVerdicts |-> 0,
     correctVerdicts |-> 0, consecutiveMinority |-> 0, isActive |-> FALSE,
     isRegistered |-> FALSE]

ZeroHistoricalAgreement == [agreements |-> 0, totalCases |-> 0]
ZeroPairHistory ==
    [a \in RegistryAccounts |-> [c \in RegistryAccounts |-> ZeroHistoricalAgreement]]
ZeroServed == [a \in RegistryAccounts |-> [b \in BountyIds |-> FALSE]]

\* The order in which the fixtures register their five judges.
FixtureJudges == <<"j1", "j2", "j3", "j4", "j5">>

\* The record JudgeRegistry.register() stores for its caller.
RegisteredJudge(t) ==
    [stakedAmount |-> MINIMUM_STAKE, reputation |-> INITIAL_REPUTATION, lastActivity |-> t,
     totalVerdicts |-> 0, correctVerdicts |-> 0, consecutiveMinority |-> 0,
     isActive |-> TRUE, isRegistered |-> TRUE]

\* ------------------------------------------------------------ calls
\* ReentrancyGuard: the two values of _status and the nonReentrant modifier
NOT_ENTERED == "NOT_ENTERED"
ENTERED     == "ENTERED"
nonReentrant == _status = NOT_ENTERED

\* No nonReentrant call is in progress.  A call in progress is a record
\* [bounty, pending, control]: the bounty it settles, the transfers it has yet
\* to make, in order, and the recipient whose code is running (ZeroAddr when
\* EscrowJudge's own code is).
NoCall == [bounty |-> -1, pending |-> <<>>, control |-> ZeroAddr]

\* ------------------------------------------------------------ funds
GasCostUnits == 100000 * 50
\* EscrowJudge._estimateGasCost: 100000 * 50 gwei
_estimateGasCost == GasCostUnits * gwei

\* What a poster holds of each asset before creating bounties.
InitialFunds == 2 * _estimateGasCost

\* EscrowJudge._transferFunds applied to a running result r = [ok, bal]:
\* the transfer reverts for the zero recipient or when the escrow holds too little.
_transferFunds(r, to, token, amount) ==
    IF r.ok /\ to # ZeroAddr /\ r.bal[token][EscrowJudgeAddr] >= amount
    THEN [ok  |-> TRUE,
          bal |-> [r.bal EXCEPT ![token] =
                     [h \in Holders |->
                        IF h = EscrowJudgeAddr /\ h = to THEN @[h]
                        ELSE IF h = EscrowJudgeAddr THEN @[h] - amount
                        ELSE IF h = to THEN @[h] + amount
                        ELSE @[h]]]]
    ELSE [ok |-> FALSE, bal |-> r.bal]

\* floor(a * b / c) as Solidity's (a * b) / c
MulDiv(a, b, c) == (a * b) \div c

\* The fee createBounty stores.
FeeOf(amount) == MulDiv(amount, FEE_BASIS_POINTS, BASIS_POINTS_DENOMINATOR)

\* Variant of _executeVerdict: the Partial branch takes any percentage.
_executeVerdictAnyPercentage(bal, bounty, _verdict, _partialPercentage) ==
    LET r0 == [ok |-> TRUE, bal |-> bal] IN
    IF _verdict = "Pass" THEN
        LET workerAmount == bounty.amount - bounty.feeAmount
            r1 == _transferFunds(r0, bounty.worker, bounty.token, workerAmount)
        IN  _transferFunds(r1, treasury, bounty.token, bounty.feeAmount)
    ELSE IF _verdict = "Fail" THEN
        LET gasCost      == _estimateGasCost
            returnAmount == IF bounty.amount > gasCost THEN bounty.amount - gasCost ELSE 0
            r1 == _transferFunds(r0, bounty.poster, bounty.token, returnAmount)
        IN  IF bounty.amount > gasCost
            THEN _transferFunds(r1, treasury, bounty.token, gasCost)
            ELSE r1
    ELSE IF _verdict = "Partial" THEN
        LET partialAmount == MulDiv(bounty.amount, _partialPercentage, 100)
            partialFee    == MulDiv(partialAmount, FEE_BASIS_POINTS, BASIS_POINTS_DENOMINATOR)
            workerAmount  == partialAmount - partialFee
            posterReturn  == bounty.amount - partialAmount
            r1 == _transferFunds(r0, bounty.worker, bounty.token, workerAmount)
            r2 == _transferFunds(r1, bounty.poster, bounty.token, posterReturn)
        IN  _transferFunds(r2, treasury, bounty.token, partialFee)
    ELSE r0

\* EscrowJudge._executeVerdict: the transfers it makes, in order, on the balances
\* bal; ok is FALSE when the function reverts.
_executeVerdict(bal, bounty, _verdict, _partialPercentage) ==
    LET r0 == [ok |-> TRUE, bal |-> bal] IN
    IF _verdict = "Pass" THEN
        LET workerAmount == bounty.amount - bounty.feeAmount
            r1 == _transferFunds(r0, bounty.worker, bounty.token, workerAmount)
        IN  _transferFunds(r1, treasury, bounty.token, bounty.feeAmount)
    ELSE IF _verdict = "Fail" THEN
        LET gasCost      == _estimateGasCost
            returnAmount == IF bounty.amount > gasCost THEN bounty.amount - gasCost ELSE 0
            r1 == _transferFunds(r0, bounty.poster, bounty.token, returnAmount)
        IN  IF bounty.amount > gasCost
            THEN _transferFunds(r1, treasury, bounty.token, gasCost)
            ELSE r1
    ELSE IF _verdict = "Partial" THEN
        IF ~(_partialPercentage > 0 /\ _partialPercentage < 100)
        THEN [ok |-> FALSE, bal |-> bal]
        ELSE
        LET partialAmount == MulDiv(bounty.amount, _partialPercentage, 100)
            partialFee    == MulDiv(partialAmount, FEE_BASIS_POINTS, BASIS_POINTS_DENOMINATOR)
            workerAmount  == partialAmount - partialFee
            posterReturn  == bounty.amount - partialAmount
            r1 == _transferFunds(r0, bounty.worker, bounty.token, workerAmount)
            r2 == _transferFunds(r1, bounty.poster, bounty.token, posterReturn)
        IN  _transferFunds(r2, treasury, bounty.token, partialFee)
    ELSE r0


\* ------------------------------------------------------------ initial state
\* EscrowJudge and CommitReveal deployed and wired as scripts/deploy.js wires
\* them, no call made yet; Init adds the registry with the five judges of the
\* test fixtures registered.
DeployedContracts ==
    /\ treasury = TreasuryAddr
    /\ judgeRegistry = JudgeRegistryAddr
    /\ commitReveal = CommitRevealAddr
    /\ escrowPaused = FALSE
    /\ _status = NOT_ENTERED
    /\ call = NoCall
    /\ nextBountyId = 0
    /\ bounties = [b \in BountyIds |-> ZeroBounty]
    /\ panels = [b \in BountyIds |-> ZeroPanel]
    /\ disputes = [b \in BountyIds |-> ZeroDispute]
    /\ escrowJudge = EscrowJudgeAddr
    /\ crPaused = FALSE
    /\ bountyCommits = [b \in BountyIds |-> ZeroBountyCommits]

\* The same at time 0, with the poster and the worker funded.
Deployed ==
    /\ now = 0
    /\ balance = [t \in Tokens |->
                    [h \in Holders |-> IF h \in {Alice, Bob} THEN InitialFunds ELSE 0]]
    /\ DeployedContracts

Init ==
    /\ Deployed
    /\ judges = [a \in RegistryAccounts |->
                    IF a \in JudgeAddrs THEN RegisteredJudge(0) ELSE ZeroJudge]
    /\ judgeList = FixtureJudges
    /\ registryEscrowJudge = EscrowJudgeAddr
    /\ totalActiveJudges = Cardinality(JudgeAddrs)
    /\ judgePairHistory = ZeroPairHistory
    /\ judgeServedOnBounty = ZeroServed

\* ------------------------------------------------------------ helpers
Range(f) == {f[i] : i \in DOMAIN f}

\* modifier validBounty
validBounty(_bountyId) == _bountyId < nextBountyId

\* JudgeRegistry.getActiveJudgeCount, as EscrowJudge reaches it through its
\* judgeRegistry reference: the call reverts unless the reference is the registry.
getActiveJudgeCount == totalActiveJudges

\* ------------------------------------------------------------ EscrowJudge
\* setContractReferences(_judgeRegistry, _commitReveal), onlyOwner
setContractReferences(sender, _judgeRegistry, _commitReveal) ==
    /\ sender = Owner
    /\ _judgeRegistry # ZeroAddr
    /\ _commitReveal # ZeroAddr
    /\ judgeRegistry' = _judgeRegistry
    /\ commitReveal' = _commitReveal
    /\ UNCHANGED <<now, balance, treasury, escrowPaused, _status, call, nextBountyId, bounties, panels,
                   disputes, crVars, registryVars, selectionVars>>

\* createBounty without the require on the number of active judges
createBountyAnyPool(sender, _token, _amount, _deadline, _requirementsHash) ==
    /\ nonReentrant
    /\ ~escrowPaused
    /\ _amount > 0
    /\ _deadline > now
    /\ _requirementsHash # 0
    /\ judgeRegistry # ZeroAddr
    /\ judgeRegistry = JudgeRegistryAddr
    /\ nextBountyId \in DOMAIN bounties
    /\ balance[_token][sender] >= _amount
    /\ balance' = [balance EXCEPT ![_token][sender] = @ - _amount,
                                  ![_token][EscrowJudgeAddr] = @ + _amount]
    /\ bounties' = [bounties EXCEPT ![nextBountyId] =
                      [poster |-> sender, worker |-> ZeroAddr, token |-> _token,
                       amount |-> _amount, deadline |-> _deadline, judgeDeadline |-> 0,
                       status |-> "Pending", requirementsHash |-> _requirementsHash,
                       submissionHash |-> 0, partialPercentage |-> 0,
                       feeAmount |-> FeeOf(_amount)]]
    /\ nextBountyId' = nextBountyId + 1
    /\ UNCHANGED <<now, treasury, judgeRegistry, commitReveal, escrowPaused, _status, call, panels,
                   disputes, crVars, registryVars, selectionVars>>

\* createBounty(_token, _amount, _deadline, _requirementsHash)
createBounty(sender, _token, _amount, _deadline, _requirementsHash) ==
    /\ nonReentrant
    /\ ~escrowPaused
    /\ _amount > 0
    /\ _deadline > now
    /\ _requirementsHash # 0
    /\ judgeRegistry # ZeroAddr
    /\ judgeRegistry = JudgeRegistryAddr
    /\ getActiveJudgeCount >= MIN_JUDGES
    /\ nextBountyId \in DOMAIN bounties
    /\ balance[_token][sender] >= _amount
    /\ balance' = [balance EXCEPT ![_token][sender] = @ - _amount,
                                  ![_token][EscrowJudgeAddr] = @ + _amount]
    /\ bounties' = [bounties EXCEPT ![nextBountyId] =
                      [poster |-> sender, worker |-> ZeroAddr, token |-> _token,
                       amount |-> _amount, deadline |-> _deadline, judgeDeadline |-> 0,
                       status |-> "Pending", requirementsHash |-> _requirementsHash,
                       submissionHash |-> 0, partialPercentage |-> 0,
                       feeAmount |-> FeeOf(_amount)]]
    /\ nextBountyId' = nextBountyId + 1
    /\ UNCHANGED <<now, treasury, judgeRegistry, commitReveal, escrowPaused, _status, call, panels,
                   disputes, crVars, registryVars, selectionVars>>

\* submitWork without the require that keeps the poster out
submitWorkByAnyone(sender, _bountyId, _submissionHash) ==
    /\ validBounty(_bountyId)
    /\ ~escrowPaused
    /\ bounties[_bountyId].status = "Pending"
    /\ now <= bounties[_bountyId].deadline
    /\ _submissionHash # 0
    /\ bounties' = [bounties EXCEPT ![_bountyId].worker = sender,
                                    ![_bountyId].submissionHash = _submissionHash,
                                    ![_bountyId].status = "Submitted"]
    /\ UNCHANGED <<now, balance, treasury, judgeRegistry, commitReveal, escrowPaused, _status, call,
                   nextBountyId, panels, disputes, crVars, registryVars, selectionVars>>

\* submitWork(_bountyId, _submissionHash)
submitWork(sender, _bountyId, _submissionHash) ==
    /\ validBounty(_bountyId)
    /\ ~escrowPaused
    /\ bounties[_bountyId].status = "Pending"
    /\ now <= bounties[_bountyId].deadline
    /\ _submissionHash # 0
    /\ sender # bounties[_bountyId].poster
    /\ bounties' = [bounties EXCEPT ![_bountyId].worker = sender,
                                    ![_bountyId].submissionHash = _submissionHash,
                                    ![_bountyId].status = "Submitted"]
    /\ UNCHANGED <<now, balance, treasury, judgeRegistry, commitReveal, escrowPaused, _status, call,
                   nextBountyId, panels, disputes, crVars, registryVars, selectionVars>>

\* What a call of assignJudges(_bountyId, _judges) requires and stores, whether
\* it comes from an account or from within another contract's call.
assignJudgesCall(sender, _bountyId, _judges) ==
    /\ validBounty(_bountyId)
    /\ ~escrowPaused
    /\ sender = judgeRegistry
    /\ Len(_judges) = MIN_JUDGES
    /\ bounties[_bountyId].status = "Submitted"
    /\ panels' = [panels EXCEPT ![_bountyId].judges = @ \o _judges,
                                ![_bountyId].commitDeadline = now + ONE_DAY,
                                ![_bountyId].revealDeadline = now + ONE_DAY + ONE_DAY]
    /\ bounties' = [bounties EXCEPT ![_bountyId].status = "Judging",
                                    ![_bountyId].judgeDeadline = now + ONE_DAY + ONE_DAY]

\* assignJudges(_bountyId, _judges)
assignJudges(sender, _bountyId, _judges) ==
    /\ assignJudgesCall(sender, _bountyId, _judges)
    /\ UNCHANGED <<now, balance, treasury, judgeRegistry, commitReveal, escrowPaused, _status, call,
                   nextBountyId, disputes, crVars, registryVars, selectionVars>>

\* The tally loop of processVerdict over the panel's recorded verdicts.
CountVerdicts(panel, v) ==
    Cardinality({i \in DOMAIN panel.judges :
                    panel.hasRevealed[panel.judges[i]] /\ panel.verdicts[panel.judges[i]] = v})

RECURSIVE SumPartial(_, _)
SumPartial(panel, i) ==
    IF i = 0 THEN 0
    ELSE SumPartial(panel, i - 1) +
         (IF panel.hasRevealed[panel.judges[i]] /\ panel.verdicts[panel.judges[i]] = "Partial"
          THEN panel.partialPercentages[panel.judges[i]] ELSE 0)

\* Variant of Consensus: a plain majority (one vote short of the supermajority)
\* already settles.
ConsensusPlainMajority(panel) ==
    LET passCount    == CountVerdicts(panel, "Pass")
        failCount    == CountVerdicts(panel, "Fail")
        partialCount == CountVerdicts(panel, "Partial")
    IN  IF passCount >= SUPERMAJORITY_THRESHOLD - 1 THEN [verdict |-> "Pass", pct |-> 0]
        ELSE IF failCount >= SUPERMAJORITY_THRESHOLD - 1 THEN [verdict |-> "Fail", pct |-> 0]
        ELSE IF partialCount >= SUPERMAJORITY_THRESHOLD - 1
             THEN [verdict |-> "Partial",
                   pct |-> SumPartial(panel, Len(panel.judges)) \div partialCount]
        ELSE [verdict |-> "None", pct |-> 0]

\* Variant of Consensus: the threshold is four fifths of the votes revealed, not
\* four votes of the panel.
ConsensusOfRevealed(panel) ==
    LET passCount    == CountVerdicts(panel, "Pass")
        failCount    == CountVerdicts(panel, "Fail")
        partialCount == CountVerdicts(panel, "Partial")
        revealed     == passCount + failCount + partialCount
    IN  IF passCount * MIN_JUDGES >= SUPERMAJORITY_THRESHOLD * revealed
        THEN [verdict |-> "Pass", pct |-> 0]
        ELSE IF failCount * MIN_JUDGES >= SUPERMAJORITY_THRESHOLD * revealed
        THEN [verdict |-> "Fail", pct |-> 0]
        ELSE IF partialCount * MIN_JUDGES >= SUPERMAJORITY_THRESHOLD * revealed
             THEN [verdict |-> "Partial",
                   pct |-> SumPartial(panel, Len(panel.judges)) \div partialCount]
        ELSE [verdict |-> "None", pct |-> 0]

\* Variant of Consensus: the Partial percentage is averaged over every revealed
\* vote, not over the Partial votes alone.
ConsensusAverageOfAll(panel) ==
    LET passCount    == CountVerdicts(panel, "Pass")
        failCount    == CountVerdicts(panel, "Fail")
        partialCount == CountVerdicts(panel, "Partial")
    IN  IF passCount >= SUPERMAJORITY_THRESHOLD THEN [verdict |-> "Pass", pct |-> 0]
        ELSE IF failCount >= SUPERMAJORITY_THRESHOLD THEN [verdict |-> "Fail", pct |-> 0]
        ELSE IF partialCount >= SUPERMAJORITY_THRESHOLD
             THEN [verdict |-> "Partial",
                   pct |-> SumPartial(panel, Len(panel.judges))
                              \div (passCount + failCount + partialCount)]
        ELSE [verdict |-> "None", pct |-> 0]

\* The consensus processVerdict determines: [verdict, pct], verdict "None" when no
\* count reaches the supermajority.
Consensus(panel) ==
    LET passCount    == CountVerdicts(panel, "Pass")
        failCount    == CountVerdicts(panel, "Fail")
        partialCount == CountVerdicts(panel, "Partial")
    IN  IF passCount >= SUPERMAJORITY_THRESHOLD THEN [verdict |-> "Pass", pct |-> 0]
        ELSE IF failCount >= SUPERMAJORITY_THRESHOLD THEN [verdict |-> "Fail", pct |-> 0]
        ELSE IF partialCount >= SUPERMAJORITY_THRESHOLD
             THEN [verdict |-> "Partial",
                   pct |-> SumPartial(panel, Len(panel.judges)) \div partialCount]
        ELSE [verdict |-> "None", pct |-> 0]

\* EscrowJudge._initiateDispute: the dispute record it stores
_initiateDispute(_bountyId) ==
    [bountyId |-> _bountyId, createdAt |-> now, arbitrationDeadline |-> now + DISPUTE_WINDOW,
     arbitrator |-> ZeroAddr, resolved |-> FALSE, finalVerdict |-> "None",
     finalPartialPercentage |-> 0]

\* processVerdict(_bountyId): its modifiers and requires
processVerdictRequires(_bountyId) ==
    LET panel == panels[_bountyId]
        revealedCount == CountVerdicts(panel, "Pass") + CountVerdicts(panel, "Fail")
                         + CountVerdicts(panel, "Partial")
    IN  /\ validBounty(_bountyId)
        /\ nonReentrant
        /\ ~escrowPaused
        /\ bounties[_bountyId].status = "Reveal"
        /\ now > panel.revealDeadline
        /\ revealedCount > 0

\* processVerdict(_bountyId)
processVerdict(sender, _bountyId) ==
    LET bounty == bounties[_bountyId]
        panel  == panels[_bountyId]
        c == Consensus(panel)
        r == _executeVerdict(balance, bounty, c.verdict, c.pct)
    IN  /\ processVerdictRequires(_bountyId)
        /\ IF c.verdict = "None"
           THEN /\ bounties' = [bounties EXCEPT ![_bountyId].status = "Disputed"]
                /\ disputes' = [disputes EXCEPT ![_bountyId] = _initiateDispute(_bountyId)]
                /\ UNCHANGED balance
           ELSE /\ r.ok
                /\ bounties' = [bounties EXCEPT ![_bountyId].status = "Completed",
                                                ![_bountyId].partialPercentage = c.pct]
                /\ balance' = r.bal
                /\ UNCHANGED disputes
        /\ UNCHANGED <<now, treasury, judgeRegistry, commitReveal, escrowPaused, _status, call,
                       nextBountyId, panels, crVars, registryVars, selectionVars>>


\* getPanelJudges / the panel-membership loop of recordVerdict and _isPanelJudge
_isPanelJudge(_bountyId, _addr) == _addr \in Range(panels[_bountyId].judges)

\* recordVerdict(_bountyId, _judge, _verdict, _partialPercentage): the part of a
\* CommitReveal call that runs inside EscrowJudge.  It sets bounties' and panels'.
recordVerdict(sender, _bountyId, _judge, _verdict, _partialPercentage) ==
    LET recorded == [panels[_bountyId] EXCEPT
                        !.verdicts[_judge] = _verdict,
                        !.partialPercentages[_judge] = _partialPercentage,
                        !.hasRevealed[_judge] = TRUE]
        allRevealed == \A i \in DOMAIN recorded.judges : recorded.hasRevealed[recorded.judges[i]]
    IN  /\ validBounty(_bountyId)
        /\ sender = commitReveal
        /\ _verdict # "None"
        /\ _isPanelJudge(_bountyId, _judge)
        /\ IF allRevealed
           THEN /\ panels' = [panels EXCEPT ![_bountyId] =
                                [recorded EXCEPT !.revealPhaseComplete = TRUE]]
                /\ bounties' = [bounties EXCEPT ![_bountyId].status = "Reveal"]
           ELSE /\ panels' = [panels EXCEPT ![_bountyId] = recorded]
                /\ UNCHANGED bounties

\* Variant of endCommitPhaseAllowed: the status is not looked at.
endCommitPhaseAnyStatus(_bountyId) ==
    /\ validBounty(_bountyId)
    /\ ~escrowPaused
    /\ now > panels[_bountyId].commitDeadline

\* endCommitPhase(_bountyId): its modifiers and requires
endCommitPhaseAllowed(_bountyId) ==
    /\ validBounty(_bountyId)
    /\ ~escrowPaused
    /\ bounties[_bountyId].status = "Judging"
    /\ now > panels[_bountyId].commitDeadline

endCommitPhase(sender, _bountyId) ==
    /\ endCommitPhaseAllowed(_bountyId)
    /\ bounties' = [bounties EXCEPT ![_bountyId].status = "Reveal"]
    /\ UNCHANGED <<now, balance, treasury, judgeRegistry, commitReveal, escrowPaused, _status, call,
                   nextBountyId, panels, disputes, crVars, registryVars, selectionVars>>

\* Variant of resolveDisputeRequires: the dispute's resolved flag alone guards
\* against a second settlement.
resolveDisputeUnlessResolved(sender, _bountyId, _verdict, _partialPercentage) ==
    /\ validBounty(_bountyId)
    /\ sender = Owner
    /\ nonReentrant
    /\ ~escrowPaused
    /\ bounties[_bountyId].status \in {"Disputed", "Completed"}
    /\ ~disputes[_bountyId].resolved
    /\ _verdict # "None"
    /\ _partialPercentage <= 100

\* Variant of resolveDisputeRequires without onlyOwner.
resolveDisputeAnyCaller(sender, _bountyId, _verdict, _partialPercentage) ==
    /\ validBounty(_bountyId)
    /\ nonReentrant
    /\ ~escrowPaused
    /\ bounties[_bountyId].status = "Disputed"
    /\ ~disputes[_bountyId].resolved
    /\ _verdict # "None"
    /\ _partialPercentage <= 100

\* resolveDispute: its modifiers (validBounty, onlyOwner, nonReentrant,
\* whenNotPaused) and requires
resolveDisputeRequires(sender, _bountyId, _verdict, _partialPercentage) ==
    /\ validBounty(_bountyId)
    /\ sender = Owner
    /\ nonReentrant
    /\ ~escrowPaused
    /\ bounties[_bountyId].status = "Disputed"
    /\ ~disputes[_bountyId].resolved
    /\ _verdict # "None"
    /\ _partialPercentage <= 100

\* resolveDispute(_bountyId, _verdict, _partialPercentage)
resolveDispute(sender, _bountyId, _verdict, _partialPercentage) ==
    LET bounty == bounties[_bountyId]
        r == _executeVerdict(balance, bounty, _verdict, _partialPercentage)
    IN  /\ resolveDisputeRequires(sender, _bountyId, _verdict, _partialPercentage)
        /\ r.ok
        /\ disputes' = [disputes EXCEPT ![_bountyId].resolved = TRUE,
                                        ![_bountyId].finalVerdict = _verdict,
                                        ![_bountyId].finalPartialPercentage = _partialPercentage]
        /\ bounties' = [bounties EXCEPT ![_bountyId].status = "Completed",
                                        ![_bountyId].partialPercentage = _partialPercentage]
        /\ balance' = r.bal
        /\ UNCHANGED <<now, treasury, judgeRegistry, commitReveal, escrowPaused, _status, call,
                       nextBountyId, panels, crVars, registryVars, selectionVars>>

\* Variant of cancelBountyRequires: the poster may still cancel until a panel is
\* assigned.
cancelBountyUntilJudging(sender, _bountyId) ==
    /\ validBounty(_bountyId)
    /\ sender = bounties[_bountyId].poster
    /\ nonReentrant
    /\ ~escrowPaused
    /\ bounties[_bountyId].status \in {"Pending", "Submitted"}

\* cancelBounty: its modifiers (validBounty, onlyBountyPoster, nonReentrant,
\* whenNotPaused) and require
cancelBountyRequires(sender, _bountyId) ==
    /\ validBounty(_bountyId)
    /\ sender = bounties[_bountyId].poster
    /\ nonReentrant
    /\ ~escrowPaused
    /\ bounties[_bountyId].status = "Pending"

\* cancelBounty(_bountyId)
cancelBounty(sender, _bountyId) ==
    LET bounty == bounties[_bountyId]
        r == _transferFunds([ok |-> TRUE, bal |-> balance], bounty.poster, bounty.token,
                            bounty.amount)
    IN  /\ cancelBountyRequires(sender, _bountyId)
        /\ r.ok
        /\ bounties' = [bounties EXCEPT ![_bountyId].status = "Cancelled"]
        /\ balance' = r.bal
        /\ UNCHANGED <<now, treasury, judgeRegistry, commitReveal, escrowPaused, _status, call,
                       nextBountyId, panels, disputes, crVars, registryVars, selectionVars>>

\* ------------------------------------------------------------ CommitReveal
\* keccak256(abi.encodePacked(_verdict, _partialPercentage, _salt)): one byte of
\* verdict, 32 of percentage, 32 of salt.  Distinct triples give distinct
\* non-zero hashes (no collisions), which this base-4 / base-102 encoding keeps
\* for percentages up to 101.
VerdictCode(v) == CASE v = "None" -> 0 [] v = "Pass" -> 1 [] v = "Partial" -> 2 [] v = "Fail" -> 3
Hash(_verdict, _partialPercentage, _salt) ==
    1 + VerdictCode(_verdict) + 4 * (_partialPercentage + 102 * _salt)

\* The bounty status CommitReveal reads through escrowJudge.bounties(_bountyId).
StatusOf(_bountyId) ==
    IF _bountyId \in BountyIds THEN bounties[_bountyId].status ELSE "Pending"

\* Variant of submitCommitRequires: a judge may commit again.
submitCommitAgain(sender, _bountyId, _commitHash) ==
    /\ ~crPaused
    /\ escrowJudge # ZeroAddr
    /\ _commitHash # 0
    /\ StatusOf(_bountyId) = "Judging"
    /\ _isPanelJudge(_bountyId, sender)

\* submitCommit: whenNotPaused and its own requires
submitCommitRequires(sender, _bountyId, _commitHash) ==
    /\ ~crPaused
    /\ escrowJudge # ZeroAddr
    /\ _commitHash # 0
    /\ StatusOf(_bountyId) = "Judging"
    /\ _isPanelJudge(_bountyId, sender)
    /\ ~bountyCommits[_bountyId].commits[sender].exists

\* submitCommit(_bountyId, _commitHash), with _checkAllCommitted and the
\* endCommitPhase call it makes when the last commit arrives.
submitCommit(sender, _bountyId, _commitHash) ==
    LET bc == bountyCommits[_bountyId]
        allCommitted == bc.commitCount + 1 >= Len(panels[_bountyId].judges)
    IN  /\ submitCommitRequires(sender, _bountyId, _commitHash)
        /\ IF allCommitted
           THEN /\ endCommitPhaseAllowed(_bountyId)
                /\ bountyCommits' = [bountyCommits EXCEPT
                        ![_bountyId].commits[sender] = [commitHash |-> _commitHash, exists |-> TRUE],
                        ![_bountyId].commitCount = @ + 1,
                        ![_bountyId].commitPhaseActive = FALSE,
                        ![_bountyId].revealPhaseActive = TRUE]
                /\ bounties' = [bounties EXCEPT ![_bountyId].status = "Reveal"]
           ELSE /\ bountyCommits' = [bountyCommits EXCEPT
                        ![_bountyId].commits[sender] = [commitHash |-> _commitHash, exists |-> TRUE],
                        ![_bountyId].commitCount = @ + 1]
                /\ UNCHANGED bounties
        /\ UNCHANGED <<now, balance, treasury, judgeRegistry, commitReveal, escrowPaused, _status, call,
                       nextBountyId, panels, disputes, escrowJudge, crPaused, registryVars, selectionVars>>

\* _checkAllRevealed after one more reveal: the revealPhaseActive flag it leaves.
_checkAllRevealed(_bountyId, revealCount, active) ==
    IF revealCount >= Len(panels[_bountyId].judges) THEN FALSE ELSE active

\* Variant of revealVerdictRequires: the revealed triple is not hashed and compared.
revealVerdictUnverified(sender, _bountyId, _verdict, _partialPercentage, _salt) ==
    LET bc == bountyCommits[_bountyId]
    IN  /\ ~crPaused
        /\ _verdict # "None"
        /\ _partialPercentage <= 100
        /\ StatusOf(_bountyId) = "Reveal"
        /\ _isPanelJudge(_bountyId, sender)
        /\ bc.commits[sender].exists
        /\ ~bc.reveals[sender].exists

\* Variant of revealVerdictRequires: reveals are taken only while CommitReveal's
\* own revealPhaseActive flag is set.
revealVerdictWhileActive(sender, _bountyId, _verdict, _partialPercentage, _salt) ==
    LET bc == bountyCommits[_bountyId]
    IN  /\ ~crPaused
        /\ _verdict # "None"
        /\ _partialPercentage <= 100
        /\ StatusOf(_bountyId) = "Reveal"
        /\ bc.revealPhaseActive
        /\ _isPanelJudge(_bountyId, sender)
        /\ bc.commits[sender].exists
        /\ ~bc.reveals[sender].exists
        /\ Hash(_verdict, _partialPercentage, _salt) = bc.commits[sender].commitHash

\* Variant of revealVerdictRequires: the bounty's status is not looked at.
revealVerdictAnyStatus(sender, _bountyId, _verdict, _partialPercentage, _salt) ==
    LET bc == bountyCommits[_bountyId]
    IN  /\ ~crPaused
        /\ _verdict # "None"
        /\ _partialPercentage <= 100
        /\ _isPanelJudge(_bountyId, sender)
        /\ bc.commits[sender].exists
        /\ ~bc.reveals[sender].exists
        /\ Hash(_verdict, _partialPercentage, _salt) = bc.commits[sender].commitHash

\* revealVerdict: whenNotPaused and its own requires
revealVerdictRequires(sender, _bountyId, _verdict, _partialPercentage, _salt) ==
    LET bc == bountyCommits[_bountyId]
    IN  /\ ~crPaused
        /\ _verdict # "None"
        /\ _partialPercentage <= 100
        /\ StatusOf(_bountyId) = "Reveal"
        /\ _isPanelJudge(_bountyId, sender)
        /\ bc.commits[sender].exists
        /\ ~bc.reveals[sender].exists
        /\ Hash(_verdict, _partialPercentage, _salt) = bc.commits[sender].commitHash

\* revealVerdict(_bountyId, _verdict, _partialPercentage, _salt)
revealVerdict(sender, _bountyId, _verdict, _partialPercentage, _salt) ==
    LET bc == bountyCommits[_bountyId]
    IN  /\ revealVerdictRequires(sender, _bountyId, _verdict, _partialPercentage, _salt)
        /\ recordVerdict(CommitRevealAddr, _bountyId, sender, _verdict, _partialPercentage)
        /\ bountyCommits' = [bountyCommits EXCEPT
                ![_bountyId].reveals[sender] =
                    [verdict |-> _verdict, partialPercentage |-> _partialPercentage,
                     salt |-> _salt, exists |-> TRUE],
                ![_bountyId].revealCount = @ + 1,
                ![_bountyId].revealPhaseActive =
                    _checkAllRevealed(_bountyId, bc.revealCount + 1, @)]
        /\ UNCHANGED <<now, balance, treasury, judgeRegistry, commitReveal, escrowPaused, _status, call,
                       nextBountyId, disputes, escrowJudge, crPaused, registryVars, selectionVars>>

\* Variant of penalizeNoRevealRequires: the reveal deadline is not waited for.
penalizeNoRevealEarly(sender, _bountyId, _judge) ==
    LET bc == bountyCommits[_bountyId]
    IN  /\ sender = Owner
        /\ bc.commits[_judge].exists
        /\ ~bc.reveals[_judge].exists
        /\ StatusOf(_bountyId) = "Reveal"

\* Variant of penalizeNoRevealRequires: an existing reveal record does not stop
\* the penalty.
penalizeNoRevealRepeated(sender, _bountyId, _judge) ==
    LET bc == bountyCommits[_bountyId]
        revealDeadline == bounties[_bountyId].judgeDeadline
    IN  /\ sender = Owner
        /\ bc.commits[_judge].exists
        /\ StatusOf(_bountyId) = "Reveal"
        /\ now > revealDeadline

\* penalizeNoReveal: onlyOwner and its own requires (the reveal deadline it reads
\* is the bounty's judgeDeadline)
penalizeNoRevealRequires(sender, _bountyId, _judge) ==
    LET bc == bountyCommits[_bountyId]
        revealDeadline == bounties[_bountyId].judgeDeadline
    IN  /\ sender = Owner
        /\ bc.commits[_judge].exists
        /\ ~bc.reveals[_judge].exists
        /\ StatusOf(_bountyId) = "Reveal"
        /\ now > revealDeadline

\* penalizeNoReveal(_bountyId, _judge)
penalizeNoReveal(sender, _bountyId, _judge) ==
    LET bc == bountyCommits[_bountyId]
    IN  /\ penalizeNoRevealRequires(sender, _bountyId, _judge)
        /\ recordVerdict(CommitRevealAddr, _bountyId, _judge, "Fail", 0)
        /\ bountyCommits' = [bountyCommits EXCEPT
                ![_bountyId].reveals[_judge] =
                    [verdict |-> "Fail", partialPercentage |-> 0, salt |-> 0, exists |-> TRUE],
                ![_bountyId].revealCount = @ + 1]
        /\ UNCHANGED <<now, balance, treasury, judgeRegistry, commitReveal, escrowPaused, _status, call,
                       nextBountyId, disputes, escrowJudge, crPaused, registryVars, selectionVars>>


\* ------------------------------------------------------------ JudgeRegistry
\* getEligibleJudges(): the active judges of judgeList with reputation at or
\* above REPUTATION_THRESHOLD_LOW, in registration order
getEligibleJudges ==
    SelectSeq(judgeList, LAMBDA a : /\ judges[a].isActive
                                    /\ judges[a].reputation >= REPUTATION_THRESHOLD_LOW)

getReputation(_judge) == judges[_judge].reputation

\* The functions of JudgeRegistry work on a running result
\* r = [ok, judges, active, bal]: the judges mapping, totalActiveJudges and the
\* token balances as the call has left them so far; ok turns FALSE when the call
\* reverts (a failed require, a failed transfer, or a uint256 subtraction below
\* zero, which Solidity 0.8 turns into a revert).
Running == [ok |-> TRUE, judges |-> judges, active |-> totalActiveJudges, bal |-> balance]

\* usdc.safeTransfer / safeTransferFrom of amount from one holder to another
safeTransfer(r, from, to, amount) ==
    IF r.bal[USDC][from] >= amount
    THEN [r EXCEPT !.bal = [r.bal EXCEPT ![USDC][from] = @ - amount,
                                         ![USDC][to] = @ + amount]]
    ELSE [r EXCEPT !.ok = FALSE]

_min(a, b) == IF a < b THEN a ELSE b
_max(a, b) == IF a > b THEN a ELSE b

\* _deactivateJudge without the test of isActive
_deactivateJudgeUnconditional(r, _judge) ==
    [r EXCEPT !.judges[_judge].isActive = FALSE, !.active = @ - 1]

\* _deactivateJudge(_judge)
_deactivateJudge(r, _judge) ==
    IF r.judges[_judge].isActive
    THEN [r EXCEPT !.judges[_judge].isActive = FALSE, !.active = @ - 1]
    ELSE r

\* _slashJudge that leaves the minority streak as it stands
_slashJudgeKeepStreak(r, _judge) ==
    LET judge       == r.judges[_judge]
        slashAmount == (judge.stakedAmount * SLASH_PERCENTAGE) \div 100
        paid        == safeTransfer(r, JudgeRegistryAddr, Owner, slashAmount)
        slashed     == [paid EXCEPT
                          !.ok = paid.ok /\ judge.reputation >= 100,
                          !.judges[_judge].stakedAmount = @ - slashAmount,
                          !.judges[_judge].reputation = _max(@ - 100, MIN_REPUTATION)]
    IN  IF slashed.judges[_judge].stakedAmount < MINIMUM_STAKE
        THEN _deactivateJudge(slashed, _judge)
        ELSE slashed

\* _slashJudge without the transfer of the slashed amount to the owner
_slashJudgeKeepFunds(r, _judge) ==
    LET judge       == r.judges[_judge]
        slashAmount == (judge.stakedAmount * SLASH_PERCENTAGE) \div 100
        slashed     == [r EXCEPT
                          !.ok = r.ok /\ judge.reputation >= 100,
                          !.judges[_judge].stakedAmount = @ - slashAmount,
                          !.judges[_judge].consecutiveMinority = 0,
                          !.judges[_judge].reputation = _max(@ - 100, MIN_REPUTATION)]
    IN  IF slashed.judges[_judge].stakedAmount < MINIMUM_STAKE
        THEN _deactivateJudge(slashed, _judge)
        ELSE slashed

\* _slashJudge(_judge)
_slashJudge(r, _judge) ==
    LET judge       == r.judges[_judge]
        slashAmount == (judge.stakedAmount * SLASH_PERCENTAGE) \div 100
        paid        == safeTransfer(r, JudgeRegistryAddr, Owner, slashAmount)
        slashed     == [paid EXCEPT
                          !.ok = paid.ok /\ judge.reputation >= 100,
                          !.judges[_judge].stakedAmount = @ - slashAmount,
                          !.judges[_judge].consecutiveMinority = 0,
                          !.judges[_judge].reputation = _max(@ - 100, MIN_REPUTATION)]
    IN  IF slashed.judges[_judge].stakedAmount < MINIMUM_STAKE
        THEN _deactivateJudge(slashed, _judge)
        ELSE slashed

\* What a call leaves in the registry's variables when it did not revert.
Commit(r) ==
    /\ r.ok
    /\ judges' = r.judges
    /\ totalActiveJudges' = r.active
    /\ balance' = r.bal

\* register()
register(sender) ==
    /\ ~judges[sender].isRegistered
    /\ Commit([safeTransfer(Running, sender, JudgeRegistryAddr, MINIMUM_STAKE) EXCEPT
                  !.judges[sender] = RegisteredJudge(now),
                  !.active = @ + 1])
    /\ judgeList' = Append(judgeList, sender)
    /\ UNCHANGED <<now, escrowVars, crVars, registryEscrowJudge, selectionVars>>

\* increaseStake(_amount)
increaseStake(sender, _amount) ==
    /\ judges[sender].isRegistered
    /\ _amount > 0
    /\ Commit([safeTransfer(Running, sender, JudgeRegistryAddr, _amount) EXCEPT
                  !.judges[sender].stakedAmount = @ + _amount])
    /\ UNCHANGED <<now, escrowVars, crVars, judgeList, registryEscrowJudge, selectionVars>>

\* withdrawStake(_amount)
withdrawStake(sender, _amount) ==
    /\ judges[sender].isRegistered
    /\ _amount <= judges[sender].stakedAmount
    /\ _amount > 0
    /\ judges[sender].isActive => judges[sender].stakedAmount - _amount >= MINIMUM_STAKE
    /\ LET paid == [safeTransfer(Running, JudgeRegistryAddr, sender, _amount) EXCEPT
                       !.judges[sender].stakedAmount = @ - _amount]
       IN  Commit(IF /\ paid.judges[sender].stakedAmount < MINIMUM_STAKE
                     /\ paid.judges[sender].isActive
                  THEN _deactivateJudge(paid, sender)
                  ELSE paid)
    /\ UNCHANGED <<now, escrowVars, crVars, judgeList, registryEscrowJudge, selectionVars>>

\* recordVerdictResult with the reputation of a correct verdict left uncapped
recordVerdictResultUncapped(r, _judge, _agreedWithConsensus) ==
    LET judge   == r.judges[_judge]
        counted == [r EXCEPT !.judges[_judge].totalVerdicts = @ + 1,
                             !.judges[_judge].lastActivity = now]
        scored  ==
            IF _agreedWithConsensus
            THEN [counted EXCEPT
                     !.judges[_judge].correctVerdicts = @ + 1,
                     !.judges[_judge].consecutiveMinority = 0,
                     !.judges[_judge].reputation = @ + 10]
            ELSE LET lowered ==
                         [counted EXCEPT
                             !.ok = judge.reputation > MIN_REPUTATION => judge.reputation >= 20,
                             !.judges[_judge].consecutiveMinority = @ + 1,
                             !.judges[_judge].reputation =
                                 IF @ > MIN_REPUTATION THEN _max(@ - 20, MIN_REPUTATION)
                                 ELSE @]
                 IN  IF lowered.judges[_judge].consecutiveMinority
                           >= CONSECUTIVE_MINORITY_THRESHOLD
                     THEN _slashJudge(lowered, _judge)
                     ELSE lowered
    IN  IF /\ scored.judges[_judge].reputation < REPUTATION_THRESHOLD_LOW
           /\ scored.judges[_judge].isActive
        THEN _deactivateJudge(scored, _judge)
        ELSE scored

\* The body of recordVerdictResult(_judge, _agreedWithConsensus) on r.
recordVerdictResultBody(r, _judge, _agreedWithConsensus) ==
    LET judge   == r.judges[_judge]
        counted == [r EXCEPT !.judges[_judge].totalVerdicts = @ + 1,
                             !.judges[_judge].lastActivity = now]
        scored  ==
            IF _agreedWithConsensus
            THEN [counted EXCEPT
                     !.judges[_judge].correctVerdicts = @ + 1,
                     !.judges[_judge].consecutiveMinority = 0,
                     !.judges[_judge].reputation =
                         IF @ < MAX_REPUTATION THEN _min(@ + 10, MAX_REPUTATION) ELSE @]
            ELSE LET lowered ==
                         [counted EXCEPT
                             !.ok = judge.reputation > MIN_REPUTATION => judge.reputation >= 20,
                             !.judges[_judge].consecutiveMinority = @ + 1,
                             !.judges[_judge].reputation =
                                 IF @ > MIN_REPUTATION THEN _max(@ - 20, MIN_REPUTATION)
                                 ELSE @]
                 IN  IF lowered.judges[_judge].consecutiveMinority
                           >= CONSECUTIVE_MINORITY_THRESHOLD
                     THEN _slashJudge(lowered, _judge)
                     ELSE lowered
    IN  IF /\ scored.judges[_judge].reputation < REPUTATION_THRESHOLD_LOW
           /\ scored.judges[_judge].isActive
        THEN _deactivateJudge(scored, _judge)
        ELSE scored

\* recordVerdictResult(_judge, _agreedWithConsensus), onlyEscrowJudge
recordVerdictResult(sender, _judge, _agreedWithConsensus) ==
    /\ sender = registryEscrowJudge
    /\ judges[_judge].isRegistered
    /\ Commit(recordVerdictResultBody(Running, _judge, _agreedWithConsensus))
    /\ UNCHANGED <<now, escrowVars, crVars, judgeList, registryEscrowJudge, selectionVars>>

\* applyDecay without the deactivation below REPUTATION_THRESHOLD_LOW
applyDecayKeepActive(sender, _judge) ==
    /\ judges[_judge].isRegistered
    /\ LET judge          == judges[_judge]
           monthsInactive == (now - judge.lastActivity) \div INACTIVITY_PERIOD
           decayAmount    == monthsInactive * REPUTATION_DECAY_RATE
           decayed        == [Running EXCEPT
                                 !.ok = judge.reputation >= decayAmount,
                                 !.judges[_judge].reputation =
                                     _max(@ - decayAmount, MIN_REPUTATION),
                                 !.judges[_judge].lastActivity = now]
       IN  IF monthsInactive > 0 THEN Commit(decayed) ELSE Commit(Running)
    /\ UNCHANGED <<now, escrowVars, crVars, judgeList, registryEscrowJudge, selectionVars>>

\* applyDecay(_judge)
applyDecay(sender, _judge) ==
    /\ judges[_judge].isRegistered
    /\ LET judge          == judges[_judge]
           monthsInactive == (now - judge.lastActivity) \div INACTIVITY_PERIOD
           decayAmount    == monthsInactive * REPUTATION_DECAY_RATE
           decayed        == [Running EXCEPT
                                 !.ok = judge.reputation >= decayAmount,
                                 !.judges[_judge].reputation =
                                     _max(@ - decayAmount, MIN_REPUTATION),
                                 !.judges[_judge].lastActivity = now]
       IN  IF monthsInactive > 0
           THEN Commit(IF /\ decayed.judges[_judge].reputation < REPUTATION_THRESHOLD_LOW
                          /\ decayed.judges[_judge].isActive
                       THEN _deactivateJudge(decayed, _judge)
                       ELSE decayed)
           ELSE Commit(Running)
    /\ UNCHANGED <<now, escrowVars, crVars, judgeList, registryEscrowJudge, selectionVars>>

\* reactivate() without the require on the reputation
reactivateAnyReputation(sender) ==
    /\ judges[sender].isRegistered
    /\ ~judges[sender].isActive
    /\ judges[sender].stakedAmount >= MINIMUM_STAKE
    /\ judges' = [judges EXCEPT ![sender].isActive = TRUE]
    /\ totalActiveJudges' = totalActiveJudges + 1
    /\ UNCHANGED <<now, balance, escrowVars, crVars, judgeList, registryEscrowJudge,
                   selectionVars>>

\* reactivate()
reactivate(sender) ==
    /\ judges[sender].isRegistered
    /\ ~judges[sender].isActive
    /\ judges[sender].stakedAmount >= MINIMUM_STAKE
    /\ judges[sender].reputation >= REPUTATION_THRESHOLD_LOW
    /\ judges' = [judges EXCEPT ![sender].isActive = TRUE]
    /\ totalActiveJudges' = totalActiveJudges + 1
    /\ UNCHANGED <<now, balance, escrowVars, crVars, judgeList, registryEscrowJudge,
                   selectionVars>>

\* setEscrowJudge(_escrowJudge), onlyOwner
setEscrowJudge(sender, _escrowJudge) ==
    /\ sender = Owner
    /\ _escrowJudge # ZeroAddr
    /\ registryEscrowJudge' = _escrowJudge
    /\ UNCHANGED <<now, balance, escrowVars, crVars, judges, judgeList, totalActiveJudges,
                   selectionVars>>

\* deactivateJudge(_judge), onlyOwner onlyRegisteredJudge(_judge)
deactivateJudge(sender, _judge) ==
    /\ sender = Owner
    /\ judges[_judge].isRegistered
    /\ Commit(_deactivateJudge(Running, _judge))
    /\ UNCHANGED <<now, escrowVars, crVars, judgeList, registryEscrowJudge, selectionVars>>

\* ------------------------------------------------------------ JudgeSelection
\* keccak256(abi.encodePacked(_seed, _attempt)): a fixed function that scatters
\* its two arguments over 0 .. 65520 (the cube of a mix of them, modulo a prime)
keccak256(_seed, _attempt) ==
    LET x == _seed * 37 + _attempt * 101 + 1
    IN  (((x * x) % 65521) * x) % 65521

\* the one element of a one-element set
Only(S) == CHOOSE x \in S : TRUE

\* _isInArray(_addr, _array, _length)
_isInArray(_addr, _array, _length) == \E i \in 1 .. _length : _array[i] = _addr

\* _hasConflict looking at the poster only
_hasConflictPosterOnly(_candidate, _poster, _worker) ==
    _candidate = _poster

\* _hasConflict(_candidate, _poster, _worker, ...)
_hasConflict(_candidate, _poster, _worker) ==
    _candidate = _poster \/ _candidate = _worker

\* _formsFriendlyPanel(_candidate, _selected, _selectedCount)
_formsFriendlyPanel(_candidate, _selected, _selectedCount) ==
    \E i \in 1 .. _selectedCount :
        LET ha == judgePairHistory[_candidate][_selected[i]]
        IN /\ ha.totalCases >= 3
           /\ (ha.agreements * 100) \div ha.totalCases > MAX_AGREEMENT_RATE

\* the first loop of _weightedRandomSelection: the sum of weights[1 .. i]
RECURSIVE SumWeights(_, _)
SumWeights(weights, i) == IF i = 0 THEN 0 ELSE SumWeights(weights, i - 1) + weights[i]

\* the second loop of _weightedRandomSelection, from index i on, with its
\* fallback to the first eligible judge
RECURSIVE WalkWeights(_, _, _, _, _)
WalkWeights(_eligible, weights, target, i, cumulative) ==
    IF i > Len(_eligible) THEN _eligible[1]
    ELSE IF target < cumulative + weights[i] THEN _eligible[i]
    ELSE WalkWeights(_eligible, weights, target, i + 1, cumulative + weights[i])

\* what _weightedRandomSelection returns when it reverts ("No valid candidates")
NoValidCandidates == "No valid candidates"

\* _weightedRandomSelection(_eligible, _selected, _selectedCount, _seed, _attempt)
_weightedRandomSelection(_eligible, _selected, _selectedCount, _seed, _attempt) ==
    LET weights == [i \in 1 .. Len(_eligible) |->
                       IF _isInArray(_eligible[i], _selected, _selectedCount) THEN 0
                       ELSE getReputation(_eligible[i])]
        totalWeight == SumWeights(weights, Len(_eligible))
    IN  IF totalWeight = 0 THEN NoValidCandidates
        ELSE WalkWeights(_eligible, weights, keccak256(_seed, _attempt) % totalWeight, 1, 0)

\* new address[](n)
NewArray(n) == [i \in 1 .. n |-> ZeroAddr]

\* The local variables of a selection loop before its first pass; ok turns FALSE
\* when a draw reverts.
LoopStart(n) == [selected |-> NewArray(n), selectedCount |-> 0, attempts |-> 0, ok |-> TRUE]

\* The while loop of selectJudges from the point where its local variables are l.
\* (Each pass binds the drawn candidate and the variables it leaves before the
\* next pass is taken.)
RECURSIVE selectJudgesLoop(_, _, _, _, _)
selectJudgesLoop(eligible, poster, worker, randomSeed, l) ==
    IF ~(l.selectedCount < PANEL_SIZE /\ l.attempts < Len(eligible) * 2) THEN l
    ELSE LET Pass(candidate) ==
                 IF candidate = NoValidCandidates
                 THEN [l EXCEPT !.ok = FALSE, !.attempts = @ + 1]
                 ELSE IF \/ _isInArray(candidate, l.selected, l.selectedCount)
                         \/ _hasConflict(candidate, poster, worker)
                         \/ _formsFriendlyPanel(candidate, l.selected, l.selectedCount)
                 THEN [l EXCEPT !.attempts = @ + 1]
                 ELSE [l EXCEPT !.selected[l.selectedCount + 1] = candidate,
                                !.selectedCount = @ + 1,
                                !.attempts = @ + 1]
             Rest(next) ==
                 IF next.ok THEN selectJudgesLoop(eligible, poster, worker, randomSeed, next)
                 ELSE next
         IN  Only({Rest(next) : next \in
                      {Pass(c) : c \in {_weightedRandomSelection(
                                            eligible, l.selected, l.selectedCount,
                                            randomSeed, l.attempts + 1)}}})

\* the judges a loop marked in judgeServedOnBounty
Marked(r) == {r.selected[i] : i \in 1 .. r.selectedCount}

\* selectJudges without its require(selectedCount == PANEL_SIZE)
selectJudgesUnfilled(eligible, status, r) ==
    /\ Len(eligible) >= PANEL_SIZE
    /\ status = "Submitted"
    /\ r.ok

\* The requires of selectJudges, r being what its loop came to.
selectJudgesRequires(eligible, status, r) ==
    /\ Len(eligible) >= PANEL_SIZE
    /\ status = "Submitted"
    /\ r.ok
    /\ r.selectedCount = PANEL_SIZE

\* What selectJudgesLoop comes to for bounty _bountyId in the current state.
selectJudgesRun(_bountyId, randomSeed) ==
    Only({selectJudgesLoop(eligible, bounties[_bountyId].poster, bounties[_bountyId].worker,
                           randomSeed, LoopStart(PANEL_SIZE)) :
             eligible \in {getEligibleJudges}})

\* selectJudges(_bountyId), onlyOwner; randomSeed is what _generateRandomSeed
\* makes of the previous block's hash and the timestamp
selectJudges(sender, _bountyId, randomSeed) ==
    /\ sender = Owner
    /\ Len(getEligibleJudges) >= PANEL_SIZE
    /\ bounties[_bountyId].status = "Submitted"
    /\ \E r \in {selectJudgesRun(_bountyId, randomSeed)} :
          /\ selectJudgesRequires(getEligibleJudges, bounties[_bountyId].status, r)
          /\ judgeServedOnBounty' =
                 [a \in RegistryAccounts |->
                     IF a \in Marked(r)
                     THEN [judgeServedOnBounty[a] EXCEPT ![_bountyId] = TRUE]
                     ELSE judgeServedOnBounty[a]]
          /\ assignJudgesCall(JudgeSelectionAddr, _bountyId, r.selected)
    /\ UNCHANGED <<now, balance, treasury, judgeRegistry, commitReveal, escrowPaused, _status, call,
                   nextBountyId, disputes, crVars, registryVars, judgePairHistory>>

\* The while loop of expandPanel, as selectJudgesLoop.
RECURSIVE expandPanelLoop(_, _, _, _, _, _)
expandPanelLoop(eligible, currentJudges, poster, worker, randomSeed, l) ==
    IF ~(l.selectedCount < Len(l.selected) /\ l.attempts < Len(eligible) * 2) THEN l
    ELSE LET Pass(candidate) ==
                 IF candidate = NoValidCandidates
                 THEN [l EXCEPT !.ok = FALSE, !.attempts = @ + 1]
                 ELSE IF \/ _isInArray(candidate, currentJudges, Len(currentJudges))
                         \/ _isInArray(candidate, l.selected, l.selectedCount)
                         \/ _hasConflict(candidate, poster, worker)
                         \/ _formsFriendlyPanel(candidate, currentJudges, Len(currentJudges))
                         \/ _formsFriendlyPanel(candidate, l.selected, l.selectedCount)
                 THEN [l EXCEPT !.attempts = @ + 1]
                 ELSE [l EXCEPT !.selected[l.selectedCount + 1] = candidate,
                                !.selectedCount = @ + 1,
                                !.attempts = @ + 1]
             Rest(next) ==
                 IF next.ok
                 THEN expandPanelLoop(eligible, currentJudges, poster, worker, randomSeed, next)
                 ELSE next
         IN  Only({Rest(next) : next \in
                      {Pass(c) : c \in {_weightedRandomSelection(
                                            eligible, l.selected, l.selectedCount,
                                            randomSeed, l.attempts + 1)}}})

\* The requires of expandPanel, r being what its loop came to.
expandPanelRequires(currentJudges, eligible, status, r) ==
    /\ Len(currentJudges) = PANEL_SIZE
    /\ Len(eligible) >= EXPANDED_PANEL_SIZE
    /\ status = "Disputed"
    /\ r.ok
    /\ r.selectedCount = Len(r.selected)

\* What expandPanelLoop comes to for bounty _bountyId in the current state.
expandPanelRun(_bountyId, randomSeed) ==
    Only({expandPanelLoop(eligible, panels[_bountyId].judges, bounties[_bountyId].poster,
                          bounties[_bountyId].worker, randomSeed,
                          LoopStart(EXPANDED_PANEL_SIZE - PANEL_SIZE)) :
             eligible \in {getEligibleJudges}})

\* expandPanel(_bountyId), onlyOwner
expandPanel(sender, _bountyId, randomSeed) ==
    /\ sender = Owner
    /\ Len(panels[_bountyId].judges) = PANEL_SIZE
    /\ Len(getEligibleJudges) >= EXPANDED_PANEL_SIZE
    /\ bounties[_bountyId].status = "Disputed"
    /\ \E r \in {expandPanelRun(_bountyId, randomSeed)} :
          /\ expandPanelRequires(panels[_bountyId].judges, getEligibleJudges,
                                 bounties[_bountyId].status, r)
          /\ judgeServedOnBounty' =
                 [a \in RegistryAccounts |->
                     IF a \in Marked(r)
                     THEN [judgeServedOnBounty[a] EXCEPT ![_bountyId] = TRUE]
                     ELSE judgeServedOnBounty[a]]
    /\ UNCHANGED <<now, balance, escrowVars, crVars, registryVars, judgePairHistory>>

\* getAgreementRate(_judge1, _judge2): <<rate, totalCases>>
getAgreementRate(_judge1, _judge2) ==
    LET ha == judgePairHistory[_judge1][_judge2]
    IN  IF ha.totalCases = 0
        THEN <<0, 0>>
        ELSE <<(ha.agreements * 100) \div ha.totalCases, ha.totalCases>>

\* recordAgreement that writes the record of (_judge1, _judge2) only
recordAgreementOneSided(sender, _judge1, _judge2, _agreed) ==
    /\ sender = Owner
    /\ _judge1 # _judge2
    /\ judgePairHistory[_judge1][_judge2].totalCases < MaxCases
    /\ LET inc == IF _agreed THEN 1 ELSE 0
       IN judgePairHistory' =
             [judgePairHistory EXCEPT
                 ![_judge1][_judge2] = [agreements |-> @.agreements + inc,
                                        totalCases |-> @.totalCases + 1]]
    /\ UNCHANGED <<now, balance, escrowVars, crVars, registryVars, judgeServedOnBounty>>

\* recordAgreement(_judge1, _judge2, _agreed), onlyOwner
recordAgreement(sender, _judge1, _judge2, _agreed) ==
    /\ sender = Owner
    /\ _judge1 # _judge2
    /\ judgePairHistory[_judge1][_judge2].totalCases < MaxCases
    /\ LET inc == IF _agreed THEN 1 ELSE 0
       IN judgePairHistory' =
             [judgePairHistory EXCEPT
                 ![_judge1][_judge2] = [agreements |-> @.agreements + inc,
                                        totalCases |-> @.totalCases + 1],
                 ![_judge2][_judge1] = [agreements |-> @.agreements + inc,
                                        totalCases |-> @.totalCases + 1]]
    /\ UNCHANGED <<now, balance, escrowVars, crVars, registryVars, judgeServedOnBounty>>

\* ------------------------------------------------------------ time
\* The block timestamp moves forward a day at a time, so that it meets every
\* deadline exactly (deadlines are whole days after the call that sets them) and
\* then passes it; the bound keeps it within MaxDays days.
Tick(d) ==
    /\ now + d <= MaxDays * ONE_DAY
    /\ now' = now + d
    /\ UNCHANGED <<balance, escrowVars, crVars, registryVars, selectionVars>>

\* Time passing for the registry, an inactivity period at a time.
Elapse(months) ==
    /\ months > 0
    /\ now + months * INACTIVITY_PERIOD <= MaxMonths * INACTIVITY_PERIOD
    /\ now' = now + months * INACTIVITY_PERIOD
    /\ UNCHANGED <<balance, escrowVars, crVars, registryVars, selectionVars>>

\* ------------------------------------------------------------ inputs
TimeSteps     == {ONE_DAY}
\* (token, amount) pairs a poster may lock: a token bounty below the fixed
\* deduction of _estimateGasCost and an ETH bounty above it
Fundings      == {<<USDC, 1000>>, <<ETH, _estimateGasCost + 1000>>}
Deadlines     == {now, now + ONE_DAY}
ContentHashes == {0, 1}
\* assignJudges accepts only msg.sender == judgeRegistry, and JudgeRegistry never
\* calls it: a panel is assigned after the owner has pointed the reference at the
\* account that assigns panels (the tests assign as the owner).
RegistryRefs  == {ZeroAddr, Owner}
Posters       == {Alice}
Submitters    == {Alice, Bob}
PanelInputs   == {<<"j1", "j2", "j3", "j4", "j5">>, <<"j1", "j2", "j3", "j4">>}
Percentages   == {0, 50, 100, 101}
\* what the arbitrator may pass to resolveDispute
Resolutions   == {<<"None", 0>>, <<"Pass", 0>>, <<"Fail", 0>>, <<"Partial", 0>>,
                  <<"Partial", 50>>, <<"Partial", 100>>, <<"Fail", 101>>}
Salts         == 1 .. MaxSalt
\* what an account seals in a commit: the panel's judges are interchangeable in
\* the code, so one of them is the one who may vote Partial
VoteTriples(a) == IF a = "j5" THEN {<<"Pass", 0, 1>>, <<"Partial", 50, 1>>}
                  ELSE {<<"Pass", 0, 1>>}
CommitHashes(a) == {0} \cup {Hash(t[1], t[2], t[3]) : t \in VoteTriples(a)}

Next ==
    \/ \E d \in TimeSteps : Tick(d)
    \/ \E s \in {Owner, Alice}, r \in RegistryRefs :
          setContractReferences(s, r, CommitRevealAddr)
    \/ \E s \in Posters, f \in Fundings \cup {<<ETH, 0>>}, d \in Deadlines,
          h \in ContentHashes : createBounty(s, f[1], f[2], d, h)
    \/ \E s \in Submitters, b \in BountyIds, h \in ContentHashes : submitWork(s, b, h)
    \/ \E s \in {Owner, Alice}, b \in BountyIds, p \in PanelInputs : assignJudges(s, b, p)
    \/ \E s \in {Owner, Bob}, b \in BountyIds : endCommitPhase(s, b)
    \/ \E s \in {Owner, Bob}, b \in BountyIds : processVerdict(s, b)
    \/ \E s \in {Owner, Alice}, b \in BountyIds, r \in Resolutions :
          resolveDispute(s, b, r[1], r[2])
    \/ \E s \in {Owner, Alice, Bob}, b \in BountyIds : cancelBounty(s, b)
    \/ \E s \in Voters, b \in BountyIds : \E h \in CommitHashes(s) :
          submitCommit(s, b, h)
    \/ \E s \in Voters, b \in BountyIds, v \in Verdict, p \in Percentages,
          x \in Salts : revealVerdict(s, b, v, p, x)
    \/ \E s \in {Owner, Bob}, b \in BountyIds, j \in JudgeAddrs : penalizeNoReveal(s, b, j)

Spec == Init /\ [][Next]_vars


\* ------------------------------------------------------------ observations
\* What an account held at Init.
InitialBalance(a) == IF a \in {Alice, Bob} THEN InitialFunds ELSE 0

\* What settlement has paid, per recipient, for bounty b (in the bounty's token):
\* the poster's refund is counted from the poster's balance after locking.
WorkerPayout(b)   == IF bounties[b].worker = ZeroAddr THEN 0
                     ELSE balance[bounties[b].token][bounties[b].worker]
                            - InitialBalance(bounties[b].worker)
PosterRefund(b)   == balance[bounties[b].token][bounties[b].poster]
                        - (InitialBalance(bounties[b].poster) - bounties[b].amount)
TreasuryPayout(b) == balance[bounties[b].token][treasury] - InitialBalance(treasury)
TotalPaid(b)      == WorkerPayout(b) + PosterRefund(b) + TreasuryPayout(b)

Created(b)  == b < nextBountyId
StatusIs(b, st) == Created(b) /\ bounties[b].status = st
RevealOver(b) == StatusIs(b, "Reveal") /\ now > panels[b].revealDeadline
Terminal(b) == StatusIs(b, "Completed") \/ StatusIs(b, "Cancelled")
RevealedVotes(b) == CountVerdicts(panels[b], "Pass") + CountVerdicts(panels[b], "Fail")
                      + CountVerdicts(panels[b], "Partial")
NoSupermajority(b) == \A v \in {"Pass", "Fail", "Partial"} : CountVerdicts(panels[b], v) < 4
\* every account that calls in the model
Callers == Accounts
\* every (verdict, percentage, salt) a reveal may carry
RevealTriples == Verdict \X Percentages \X (0 .. MaxSalt)

\* A step that changes bounty b's status: the only such step out of Reveal is
\* processVerdict, out of Disputed resolveDispute, out of Pending submitWork or
\* cancelBounty.
StatusStep(b, from, to) == bounties[b].status = from /\ bounties'[b].status = to

\* ------------------------------------------------------------ claims
\* C1: at settlement (status Completed, by any verdict branch, through
\* processVerdict or resolveDispute) worker payout + poster refund + treasury
\* payout equals the bounty's locked amount.
C1_Conservation ==
    \A b \in BountyIds :
        StatusIs(b, "Completed") => TotalPaid(b) = bounties[b].amount

\* C2: in Reveal after the reveal deadline with at least 4 recorded Pass
\* verdicts, processVerdict is accepted from any account, and the step it takes
\* leaves the bounty Completed with amount - feeAmount paid to the worker,
\* feeAmount = floor(amount*200/10000) to the treasury and nothing to the poster;
\* and whenever processVerdict completes a bounty, some verdict V has at least 4
\* recorded votes and the payout made is the payout of V.
C2_PassSupermajority ==
    /\ [](\A b \in BountyIds :
            (RevealOver(b) /\ CountVerdicts(panels[b], "Pass") >= 4)
                => \A s \in {Owner, Bob} : ENABLED processVerdict(s, b))
    /\ [][\A b \in BountyIds :
            /\ (RevealOver(b) /\ CountVerdicts(panels[b], "Pass") >= 4
                    /\ bounties'[b] # bounties[b])
                => /\ bounties'[b].status = "Completed"
                   /\ bounties[b].feeAmount = (bounties[b].amount * 200) \div 10000
                   /\ WorkerPayout(b)' = bounties[b].amount - bounties[b].feeAmount
                   /\ TreasuryPayout(b)' = bounties[b].feeAmount
                   /\ PosterRefund(b)' = 0
            /\ StatusStep(b, "Reveal", "Completed")
                => \E v \in {"Pass", "Fail", "Partial"} :
                      /\ CountVerdicts(panels[b], v) >= 4
                      /\ v = "Pass" => WorkerPayout(b)' = bounties[b].amount - bounties[b].feeAmount
                      /\ v = "Fail" => WorkerPayout(b)' = 0
                      /\ v = "Partial" => /\ WorkerPayout(b)' > 0
                                          /\ PosterRefund(b)' > 0]_vars

\* C2 witness: the 1000-unit bounty completed by processVerdict on 4 Pass votes
\* and one other vote, paid 980 / 20 / 0.
C2_Witness ==
    \E b \in BountyIds :
        /\ StatusIs(b, "Completed")
        /\ ~disputes[b].resolved
        /\ bounties[b].amount = 1000
        /\ CountVerdicts(panels[b], "Pass") = 4
        /\ CountVerdicts(panels[b], "Fail") = 1
        /\ WorkerPayout(b) = 980 /\ TreasuryPayout(b) = 20 /\ PosterRefund(b) = 0

\* C3: in Reveal after the reveal deadline with at least one revealed vote and no
\* Pass, Fail or Partial count of 4, processVerdict is accepted, and the step it
\* takes leaves the bounty Disputed with the dispute record of _initiateDispute
\* and every balance as it was; no step takes such a bounty to Completed.
C3_NoSupermajority ==
    /\ [](\A b \in BountyIds :
            (RevealOver(b) /\ RevealedVotes(b) > 0 /\ NoSupermajority(b))
                => \A s \in {Owner, Bob} : ENABLED processVerdict(s, b))
    /\ [][\A b \in BountyIds :
            (RevealOver(b) /\ RevealedVotes(b) > 0 /\ NoSupermajority(b))
                => /\ bounties'[b].status # "Completed"
                   /\ bounties'[b] # bounties[b]
                        => /\ bounties'[b].status = "Disputed"
                           /\ disputes'[b] = _initiateDispute(b)
                           /\ ~disputes'[b].resolved
                           /\ balance' = balance]_vars

\* C3 witness: a bounty Disputed on 3 Pass and 2 Fail votes, its dispute record
\* open and the whole amount still in escrow.
C3_Witness ==
    \E b \in BountyIds :
        /\ StatusIs(b, "Disputed")
        /\ CountVerdicts(panels[b], "Pass") = 3
        /\ CountVerdicts(panels[b], "Fail") = 2
        /\ disputes[b].arbitrationDeadline = disputes[b].createdAt + DISPUTE_WINDOW
        /\ ~disputes[b].resolved
        /\ balance[bounties[b].token][EscrowJudgeAddr] = bounties[b].amount
        /\ TotalPaid(b) = 0

AllowedTransitions ==
    {<<"Pending", "Submitted">>, <<"Pending", "Cancelled">>, <<"Submitted", "Judging">>,
     <<"Judging", "Reveal">>, <<"Reveal", "Completed">>, <<"Reveal", "Disputed">>,
     <<"Disputed", "Completed">>}

C6_CancelOnlyPending ==
    /\ [](\A b \in BountyIds :
            /\ \A s \in Callers :
                  ENABLED cancelBounty(s, b)
                      <=> (StatusIs(b, "Pending") /\ s = bounties[b].poster)
            /\ StatusIs(b, "Cancelled") => bounties[b].worker = ZeroAddr)
    /\ [][\A b \in BountyIds :
            (bounties'[b].status = "Cancelled" /\ bounties[b].status # "Cancelled")
                => /\ bounties[b].status = "Pending"
                   /\ bounties[b].worker = ZeroAddr
                   /\ PosterRefund(b)' = bounties[b].amount
                   /\ balance'[bounties[b].token][EscrowJudgeAddr]
                        = balance[bounties[b].token][EscrowJudgeAddr] - bounties[b].amount]_vars

\* C6 witness: the 1000-unit bounty Cancelled, the poster holding again what they
\* held before creating it and the escrow empty.
C6_Witness ==
    \E b \in BountyIds :
        /\ StatusIs(b, "Cancelled")
        /\ bounties[b].amount = 1000
        /\ PosterRefund(b) = 1000
        /\ balance[bounties[b].token][bounties[b].poster] = InitialFunds
        /\ balance[bounties[b].token][EscrowJudgeAddr] = 0

\* C7: a revealVerdict call whose triple does not hash to the caller's stored
\* commitment is rejected, whichever of verdict, percentage and salt differ.
C7_MismatchRejected ==
    \A b \in BountyIds, j \in Voters, t \in RevealTriples :
        Hash(t[1], t[2], t[3]) # bountyCommits[b].commits[j].commitHash
            => ~ENABLED revealVerdict(j, b, t[1], t[2], t[3])

\* C7 witness: in Reveal a panel judge holds the commitment of (Pass, 0, salt 1)
\* and has not revealed: that triple is accepted, the triple with salt 2 and the
\* triples with another verdict or percentage are not.
C7_Witness ==
    \E b \in BountyIds, j \in JudgeAddrs :
        /\ StatusIs(b, "Reveal")
        /\ bountyCommits[b].commits[j] = [commitHash |-> Hash("Pass", 0, 1), exists |-> TRUE]
        /\ ~bountyCommits[b].reveals[j].exists
        /\ ENABLED revealVerdict(j, b, "Pass", 0, 1)
        /\ ~ENABLED revealVerdict(j, b, "Pass", 0, 2)
        /\ ~ENABLED revealVerdict(j, b, "Partial", 0, 1)
        /\ ~ENABLED revealVerdict(j, b, "Pass", 50, 1)

\* C8: while the bounty is in Reveal, a panel judge who committed the hash of a
\* well-formed triple and has no reveal recorded can reveal with that triple
\* (whatever was attempted before); a stored commitment and a stored reveal are
\* never changed by any step, a second reveal is rejected, and the reveal count
\* moves only by one together with one new reveal record.
C8_RetryAfterRejectedReveal ==
    /\ [](\A b \in BountyIds, j \in JudgeAddrs :
            /\ \A t \in RevealTriples :
                  (/\ StatusIs(b, "Reveal")
                   /\ _isPanelJudge(b, j)
                   /\ t[1] # "None" /\ t[2] <= 100
                   /\ bountyCommits[b].commits[j] =
                        [commitHash |-> Hash(t[1], t[2], t[3]), exists |-> TRUE]
                   /\ ~bountyCommits[b].reveals[j].exists)
                      => ENABLED revealVerdict(j, b, t[1], t[2], t[3])
            /\ bountyCommits[b].reveals[j].exists
                  => \A t \in RevealTriples : ~ENABLED revealVerdict(j, b, t[1], t[2], t[3]))
    /\ [][\A b \in BountyIds :
            /\ \A j \in Voters :
                  /\ bountyCommits[b].commits[j].exists
                        => bountyCommits'[b].commits[j] = bountyCommits[b].commits[j]
                  /\ bountyCommits[b].reveals[j].exists
                        => bountyCommits'[b].reveals[j] = bountyCommits[b].reveals[j]
            /\ bountyCommits'[b].revealCount - bountyCommits[b].revealCount
                  = Cardinality({j \in Voters : bountyCommits'[b].reveals[j]
                                                    # bountyCommits[b].reveals[j]})
            /\ bountyCommits'[b].revealCount - bountyCommits[b].revealCount \in {0, 1}]_vars

\* C8 witness: the commit phase was closed with a judge yet to commit, one judge
\* has revealed, and another still holds an unrevealed commitment in Reveal.
C8_Witness ==
    \E b \in BountyIds, j, k \in JudgeAddrs :
        /\ StatusIs(b, "Reveal")
        /\ bountyCommits[b].commitCount < Len(panels[b].judges)
        /\ bountyCommits[b].reveals[k].exists
        /\ bountyCommits[b].commits[j] = [commitHash |-> Hash("Partial", 50, 1), exists |-> TRUE]
        /\ ~bountyCommits[b].reveals[j].exists
        /\ ~ENABLED revealVerdict(j, b, "Partial", 50, 2)
        /\ ENABLED revealVerdict(j, b, "Partial", 50, 1)

\* C9: submitCommit is accepted only in Judging, from a panel member, with a
\* non-zero hash, when that member has no commit stored; and any step that
\* changes a bounty's stored commits or its commitCount stores exactly one new
\* non-zero commit of a panel member who had none, in Judging, and raises the
\* count by one.
C9_CommitGuards ==
    /\ [](\A b \in BountyIds, s \in Callers \cap Voters, h \in CommitHashes("j5") :
            ENABLED submitCommit(s, b, h)
                => /\ StatusIs(b, "Judging")
                   /\ _isPanelJudge(b, s)
                   /\ h # 0
                   /\ ~bountyCommits[b].commits[s].exists)
    /\ [][\A b \in BountyIds :
            (\/ bountyCommits'[b].commits # bountyCommits[b].commits
             \/ bountyCommits'[b].commitCount # bountyCommits[b].commitCount)
                => /\ bounties[b].status = "Judging"
                   /\ bountyCommits'[b].commitCount = bountyCommits[b].commitCount + 1
                   /\ \E s \in Voters :
                         /\ _isPanelJudge(b, s)
                         /\ ~bountyCommits[b].commits[s].exists
                         /\ bountyCommits'[b].commits[s].exists
                         /\ bountyCommits'[b].commits[s].commitHash # 0
                         /\ \A o \in Voters \ {s} :
                               bountyCommits'[b].commits[o] = bountyCommits[b].commits[o]]_vars

\* C9 witness: in Judging one panel judge has committed (a second commit of theirs
\* is rejected), another panel judge's commit is accepted, and the worker's is not.
C9_Witness ==
    \E b \in BountyIds, j, k \in JudgeAddrs :
        /\ StatusIs(b, "Judging")
        /\ bountyCommits[b].commitCount = 1
        /\ bountyCommits[b].commits[j].exists
        /\ \A h \in CommitHashes("j5") : ~ENABLED submitCommit(j, b, h)
        /\ ENABLED submitCommit(k, b, Hash("Pass", 0, 1))
        /\ ~ENABLED submitCommit(k, b, 0)
        /\ ~ENABLED submitCommit(Bob, b, Hash("Pass", 0, 1))

\* C10: in Judging within the commit window, when every panel member but one has
\* committed, the commit of the last one (any non-zero hash) is accepted and the
\* step it takes leaves the bounty in Reveal.
C10_LastCommitAdvances ==
    \A b \in BountyIds, j \in JudgeAddrs :
        (/\ StatusIs(b, "Judging")
         /\ now <= panels[b].commitDeadline
         /\ _isPanelJudge(b, j)
         /\ ~bountyCommits[b].commits[j].exists
         /\ bountyCommits[b].commitCount + 1 = Len(panels[b].judges))
            => \A h \in CommitHashes(j) \ {0} :
                  ENABLED (submitCommit(j, b, h) /\ bounties'[b].status = "Reveal")

\* C11: once the panel's reveal deadline has passed no revealVerdict call is
\* accepted, and once the panel's commit deadline has passed no submitCommit call
\* is accepted.
C11_DeadlinesEnforced ==
    \A b \in BountyIds, j \in JudgeAddrs :
        /\ (Created(b) /\ now > panels[b].revealDeadline)
              => \A t \in RevealTriples : ~ENABLED revealVerdict(j, b, t[1], t[2], t[3])
        /\ (Created(b) /\ now > panels[b].commitDeadline)
              => \A h \in CommitHashes(j) : ~ENABLED submitCommit(j, b, h)

\* C12: penalizeNoReveal is accepted only for a judge with a stored commit and no
\* reveal record, on a bounty in Reveal, after the panel's reveal deadline; the
\* step it takes records Fail with percentage 0 for the judge in the escrow
\* panel, marks the judge revealed, and raises by one the Fail count that
\* processVerdict tallies.
C12_PenalizeNoReveal ==
    /\ [](\A s \in Callers, b \in BountyIds, j \in Voters :
            ENABLED penalizeNoReveal(s, b, j)
                => /\ bountyCommits[b].commits[j].exists
                   /\ ~bountyCommits[b].reveals[j].exists
                   /\ StatusIs(b, "Reveal")
                   /\ now > panels[b].revealDeadline)
    /\ [][\A s \in Callers, b \in BountyIds, j \in Voters :
            penalizeNoReveal(s, b, j)
                => /\ panels'[b].verdicts[j] = "Fail"
                   /\ panels'[b].partialPercentages[j] = 0
                   /\ panels'[b].hasRevealed[j]
                   /\ CountVerdicts(panels'[b], "Fail") = CountVerdicts(panels[b], "Fail") + 1
                   /\ CountVerdicts(panels'[b], "Pass") = CountVerdicts(panels[b], "Pass")
                   /\ CountVerdicts(panels'[b], "Partial")
                        = CountVerdicts(panels[b], "Partial")]_vars

\* C12 witness: four judges who committed and never revealed were penalized, and
\* processVerdict settled the bounty on their four Fail votes.
C12_Witness ==
    \E b \in BountyIds :
        /\ StatusIs(b, "Completed")
        /\ disputes[b] = ZeroDispute
        /\ CountVerdicts(panels[b], "Fail") = 4
        /\ Cardinality({j \in JudgeAddrs :
                          bountyCommits[b].reveals[j] =
                            [verdict |-> "Fail", partialPercentage |-> 0, salt |-> 0,
                             exists |-> TRUE]}) = 4
        /\ WorkerPayout(b) = 0

TallyVotes  == {<<"Pass", 0>>, <<"Partial", 0>>, <<"Partial", 50>>, <<"Partial", 100>>}
Silent      == <<"None", 0>>
TallyPanel  == <<"j1", "j2", "j3", "j4", "j5">>
\* the salt every judge of this specification sealed with
TallySalt   == 1

\* The state of EscrowJudge and CommitReveal when the poster locked funding f and
\* the panel's votes so far are vote (a judge mapped to Silent has committed Pass
\* and not revealed).
TallyContractsAt(at, f, vote) ==
    LET revealed == {j \in JudgeAddrs : vote[j] # Silent}
        all      == revealed = JudgeAddrs
    IN
    /\ now = at
    /\ balance = [t \in Tokens |->
                    [h \in Holders |->
                        IF h = Alice /\ t = f[1] THEN InitialFunds - f[2]
                        ELSE IF h = EscrowJudgeAddr /\ t = f[1] THEN f[2]
                        ELSE IF h \in {Alice, Bob} THEN InitialFunds ELSE 0]]
    /\ treasury = TreasuryAddr
    /\ judgeRegistry = Owner
    /\ commitReveal = CommitRevealAddr
    /\ escrowPaused = FALSE
    /\ _status = NOT_ENTERED
    /\ call = NoCall
    /\ nextBountyId = 1
    /\ bounties = [b \in BountyIds |->
                     [poster |-> Alice, worker |-> Bob, token |-> f[1], amount |-> f[2],
                      deadline |-> ONE_DAY, judgeDeadline |-> ONE_DAY + ONE_DAY,
                      status |-> "Reveal", requirementsHash |-> 1, submissionHash |-> 1,
                      partialPercentage |-> 0, feeAmount |-> FeeOf(f[2])]]
    /\ panels = [b \in BountyIds |->
                   [judges |-> TallyPanel, commitDeadline |-> ONE_DAY,
                    revealDeadline |-> ONE_DAY + ONE_DAY,
                    commitPhaseComplete |-> FALSE, revealPhaseComplete |-> all,
                    hasCommitted |-> [a \in Voters |-> FALSE],
                    hasRevealed |-> [a \in Voters |-> a \in revealed],
                    verdicts |-> [a \in Voters |-> IF a \in revealed THEN vote[a][1]
                                                   ELSE "None"],
                    partialPercentages |-> [a \in Voters |-> IF a \in revealed
                                                             THEN vote[a][2] ELSE 0]]]
    /\ disputes = [b \in BountyIds |-> ZeroDispute]
    /\ escrowJudge = EscrowJudgeAddr
    /\ crPaused = FALSE
    /\ bountyCommits = [b \in BountyIds |->
          [commits |-> [a \in Voters |->
                          IF a \notin JudgeAddrs THEN ZeroCommit
                          ELSE IF a \in revealed
                               THEN [commitHash |-> Hash(vote[a][1], vote[a][2], TallySalt),
                                     exists |-> TRUE]
                          ELSE [commitHash |-> Hash("Pass", 0, TallySalt), exists |-> TRUE]],
           reveals |-> [a \in Voters |->
                          IF a \in revealed
                          THEN [verdict |-> vote[a][1], partialPercentage |-> vote[a][2],
                                salt |-> TallySalt, exists |-> TRUE]
                          ELSE ZeroReveal],
           commitCount |-> Cardinality(JudgeAddrs),
           revealCount |-> Cardinality(revealed),
           commitPhaseActive |-> FALSE,
           revealPhaseActive |-> ~all]]

\* The same at the moment the reveal deadline is reached.
TallyContracts(f, vote) == TallyContractsAt(ONE_DAY + ONE_DAY, f, vote)

\* The same with the registry of the fixtures and JudgeSelection unused.
TallyState(f, vote) ==
    /\ TallyContracts(f, vote)
    /\ judges = [a \in RegistryAccounts |->
                    IF a \in JudgeAddrs THEN RegisteredJudge(0) ELSE ZeroJudge]
    /\ judgeList = FixtureJudges
    /\ registryEscrowJudge = EscrowJudgeAddr
    /\ totalActiveJudges = Cardinality(JudgeAddrs)
    /\ judgePairHistory = ZeroPairHistory
    /\ judgeServedOnBounty = ZeroServed

InitTally ==
    \E f \in Fundings, vote \in [JudgeAddrs -> TallyVotes \cup {Silent}] : TallyState(f, vote)

NextTally ==
    \/ \E d \in TimeSteps : Tick(d)
    \/ \E s \in {Owner, Bob}, b \in BountyIds : processVerdict(s, b)
    \/ \E s \in {Owner, Alice}, b \in BountyIds, r \in Resolutions :
          resolveDispute(s, b, r[1], r[2])
    \/ \E s \in JudgeAddrs, b \in BountyIds, v \in Verdict, p \in Percentages :
          revealVerdict(s, b, v, p, TallySalt)
    \/ \E s \in {Owner, Bob}, b \in BountyIds, j \in JudgeAddrs : penalizeNoReveal(s, b, j)

SpecTally == InitTally /\ [][NextTally]_vars

\* C14: resolveDispute with verdict Partial and percentage 0 or 100 is rejected
\* for every caller in every state; processVerdict is rejected when the tally is a
\* Partial supermajority whose average percentage is 0 or 100; and every step
\* that completes a bounty as Partial leaves 0 < partialPercentage < 100.
C14_PartialRange ==
    /\ [](\A b \in BountyIds, s \in Callers :
            /\ ~ENABLED resolveDispute(s, b, "Partial", 0)
            /\ ~ENABLED resolveDispute(s, b, "Partial", 100)
            /\ (/\ CountVerdicts(panels[b], "Partial") >= 4
                /\ SumPartial(panels[b], Len(panels[b].judges))
                      \div CountVerdicts(panels[b], "Partial") \in {0, 100})
                  => ~ENABLED processVerdict(s, b))
    /\ [][\A b \in BountyIds :
            (/\ bounties'[b].status = "Completed"
             /\ bounties[b].status # "Completed"
             /\ \/ disputes'[b].finalVerdict = "Partial"
                \/ /\ bounties[b].status = "Reveal"
                   /\ CountVerdicts(panels[b], "Partial") >= 4)
                => /\ bounties'[b].partialPercentage > 0
                   /\ bounties'[b].partialPercentage < 100
                   /\ WorkerPayout(b)' > 0
                   /\ PosterRefund(b)' > 0]_vars

\* C14 witness: after the reveal deadline four judges have voted Partial with
\* percentage 100 (a fifth vote is Pass): the tally is Partial at 100 and
\* processVerdict is rejected.
C14_Witness ==
    \E b \in BountyIds :
        /\ RevealOver(b)
        /\ CountVerdicts(panels[b], "Partial") = 4
        /\ CountVerdicts(panels[b], "Pass") = 1
        /\ SumPartial(panels[b], Len(panels[b].judges)) = 400
        /\ ~ENABLED processVerdict(Owner, b)
        /\ balance[bounties[b].token][EscrowJudgeAddr] = bounties[b].amount


\* ------------------------------------------------------------ panel selection
\* A specification for JudgeSelection.  The registry holds the first n accounts
\* of RegistrationOrder, each as register() left it; the poster and the worker of
\* the bounty are among the registered judges.  EscrowJudge and CommitReveal are
\* either freshly deployed, or stand where a panel of five has revealed a split
\* vote (SplitVote) and the reveal deadline has passed, one processVerdict away
\* from Disputed.
RegistrationOrder ==
    <<"j1", "j2", "j3", "j4", Alice, "j5", Bob, "j6", "j7", "j8", "j9">>
PoolSizes == {5, 7, 11}
SplitVote ==
    [j \in JudgeAddrs |-> IF j \in {"j4", "j5"} THEN <<"Partial", 50>> ELSE <<"Pass", 0>>]
Seeds == 0 .. MaxSeed
\* the reference the owner may give EscrowJudge for its judgeRegistry
SelectionRefs == {JudgeRegistryAddr, JudgeSelectionAddr}
\* the pair of judges whose agreements the owner records
AgreementPairs == {<<"j1", "j6">>}
\* the judge the owner may deactivate
Deactivations == {"j2"}

RegistryOf(n) ==
    LET pool == SubSeq(RegistrationOrder, 1, n)
    IN /\ judges = [a \in RegistryAccounts |->
                       IF a \in Range(pool) THEN RegisteredJudge(0) ELSE ZeroJudge]
       /\ judgeList = pool
       /\ registryEscrowJudge = EscrowJudgeAddr
       /\ totalActiveJudges = n

InitSelect ==
    \E n \in PoolSizes :
        /\ RegistryOf(n)
        /\ judgePairHistory = ZeroPairHistory
        /\ judgeServedOnBounty = ZeroServed
        /\ \/ Deployed
           \/ /\ n > PANEL_SIZE
              /\ \E f \in Fundings :
                    TallyContractsAt(ONE_DAY + ONE_DAY + ONE_DAY, f, SplitVote)

NextSelect ==
    \/ \E r \in SelectionRefs : setContractReferences(Owner, r, CommitRevealAddr)
    \/ \E s \in Posters, f \in Fundings : createBounty(s, f[1], f[2], now + ONE_DAY, 1)
    \/ \E b \in BountyIds : submitWork(Bob, b, 1)
    \/ \E s \in {Owner, Bob}, b \in BountyIds : processVerdict(s, b)
    \/ \E s \in {Owner, Alice}, j \in Deactivations : deactivateJudge(s, j)
    \/ \E s \in {Owner, Alice}, b \in BountyIds, x \in Seeds : selectJudges(s, b, x)
    \/ \E s \in {Owner, Alice}, b \in BountyIds, x \in Seeds : expandPanel(s, b, x)
    \/ \E s \in {Owner, Alice}, p \in AgreementPairs, a \in BOOLEAN :
          recordAgreement(s, p[1], p[2], a)

SpecSelect == InitSelect /\ [][NextSelect]_vars

\* ------------------------------------------------------------ panel observations
\* the members of the panel EscrowJudge holds for bounty b
PanelOf(b) == Range(panels[b].judges)
\* the judges JudgeSelection has marked as serving on bounty b
ServedOn(b) == {j \in RegistryAccounts : judgeServedOnBounty[j][b]}
\* the eligible judges that are neither the poster nor the worker of bounty b
NonConflicted(b) ==
    {j \in Range(getEligibleJudges) : j # bounties[b].poster /\ j # bounties[b].worker}
\* a and c have co-served on at least 3 cases and agreed on more than 90% of them
TooFriendly(a, c) ==
    /\ judgePairHistory[a][c].totalCases >= 3
    /\ judgePairHistory[a][c].agreements * 100
          > MAX_AGREEMENT_RATE * judgePairHistory[a][c].totalCases

\* C15: whatever the seed and the pool, the judges the loop of selectJudges
\* accepts for a Submitted bounty are pairwise distinct and are neither the poster
\* nor the worker; the judges the loop of expandPanel accepts for a Disputed
\* bounty are pairwise distinct, outside the current panel, and neither the
\* poster nor the worker; and the panels and served marks stored never hold the
\* poster, the worker or a judge twice.
C15_NoConflictNoDuplicate ==
    \A b \in BountyIds :
        /\ bounties[b].status = "Submitted" => \A x \in Seeds :
              LET r == selectJudgesRun(b, x)
              IN /\ Cardinality(Marked(r)) = r.selectedCount
                 /\ bounties[b].poster \notin Marked(r)
                 /\ bounties[b].worker \notin Marked(r)
        /\ bounties[b].status = "Disputed" => \A x \in Seeds :
              LET r == expandPanelRun(b, x)
              IN /\ Cardinality(Marked(r)) = r.selectedCount
                 /\ Marked(r) \cap PanelOf(b) = {}
                 /\ bounties[b].poster \notin Marked(r)
                 /\ bounties[b].worker \notin Marked(r)
        /\ Cardinality(PanelOf(b)) = Len(panels[b].judges)
        /\ bounties[b].poster \notin PanelOf(b) \cup ServedOn(b)
        /\ bounties[b].worker \notin PanelOf(b) \cup ServedOn(b)
        /\ Cardinality(ServedOn(b) \ PanelOf(b)) \in {0, EXPANDED_PANEL_SIZE - PANEL_SIZE}

\* C15 witness: the poster and the worker are both eligible judges of a pool of
\* seven, and selectJudges has assigned the other five as the bounty's panel.
C15_Witness ==
    \E b \in BountyIds :
        /\ bounties[b].status = "Judging"
        /\ judgeRegistry = JudgeSelectionAddr
        /\ {bounties[b].poster, bounties[b].worker} \subseteq Range(getEligibleJudges)
        /\ Len(getEligibleJudges) = 7
        /\ PanelOf(b) = NonConflicted(b)
        /\ ServedOn(b) = PanelOf(b)

\* C16: a call of selectJudges that is accepted puts no two judges on the panel
\* that have co-served on at least 3 cases with an agreement rate above 90%, and
\* a call of expandPanel that is accepted adds no judge that forms such a pair
\* with a current panel member or with another added judge.
C16_NoFriendlyPair ==
    \A b \in BountyIds, x \in Seeds :
        /\ ENABLED selectJudges(Owner, b, x)
              => \A a \in Marked(selectJudgesRun(b, x)), c \in Marked(selectJudgesRun(b, x)) :
                    a # c => ~TooFriendly(a, c)
        /\ ENABLED expandPanel(Owner, b, x)
              => \A a \in Marked(expandPanelRun(b, x)),
                    c \in Marked(expandPanelRun(b, x)) \cup PanelOf(b) :
                    a # c => ~TooFriendly(a, c)

\* C17: with EscrowJudge wired as the deployment script and the tests wire it
\* (its judgeRegistry is JudgeRegistry), a Submitted bounty, at least five
\* eligible judges that are neither poster nor worker and no pair history, the
\* owner's selectJudges is accepted for some seed.
C17_SelectSucceeds ==
    \A b \in BountyIds :
        (/\ bounties[b].status = "Submitted"
         /\ judgeRegistry = JudgeRegistryAddr
         /\ Cardinality(NonConflicted(b)) >= PANEL_SIZE
         /\ judgePairHistory = ZeroPairHistory)
            => \E x \in Seeds : ENABLED selectJudges(Owner, b, x)

\* C18: the loop of selectJudges ends within 2 * |eligible| draws; a call is
\* rejected, changing nothing, when fewer than 5 judges are eligible, when the
\* bounty is not Submitted, or when the loop ends with fewer than 5 judges; a call
\* that is accepted stores a panel of exactly 5 eligible judges, moves the bounty
\* from Submitted to Judging and marks exactly the panel's judges; no state holds
\* a panel of another size or a served mark without a panel.
C18_AllOrNothing ==
    /\ [](\A b \in BountyIds :
            /\ Len(panels[b].judges) \in {0, PANEL_SIZE}
            /\ ZeroAddr \notin PanelOf(b)
            /\ ServedOn(b) # {} => Len(panels[b].judges) = PANEL_SIZE
            /\ (Len(getEligibleJudges) < PANEL_SIZE \/ bounties[b].status # "Submitted")
                  => \A s \in Callers, x \in Seeds : ~ENABLED selectJudges(s, b, x)
            /\ bounties[b].status = "Submitted"
                  => \A x \in Seeds :
                        LET r == selectJudgesRun(b, x)
                        IN /\ r.attempts <= 2 * Len(getEligibleJudges)
                           /\ r.selectedCount < PANEL_SIZE
                                 => \A s \in Callers : ~ENABLED selectJudges(s, b, x))
    /\ [][\A b \in BountyIds :
            (panels'[b] # panels[b] /\ bounties[b].status = "Submitted")
                => /\ Len(panels'[b].judges) = PANEL_SIZE
                   /\ PanelOf(b)' \subseteq Range(getEligibleJudges)
                   /\ Cardinality(PanelOf(b)') = PANEL_SIZE
                   /\ bounties'[b].status = "Judging"
                   /\ ServedOn(b)' = PanelOf(b)']_vars

\* C18 witness: a Submitted bounty that JudgeSelection may assign a panel to, a
\* pool of seven eligible judges, one seed under which the fourteen draws fill
\* only four seats and the call is rejected, and another seed under which the
\* call is accepted.
C18_Witness ==
    \E b \in BountyIds :
        /\ bounties[b].status = "Submitted"
        /\ judgeRegistry = JudgeSelectionAddr
        /\ Len(getEligibleJudges) = 7
        /\ ServedOn(b) = {}
        /\ \E x \in Seeds :
              /\ selectJudgesRun(b, x).attempts = 14
              /\ selectJudgesRun(b, x).selectedCount = 4
              /\ ~ENABLED selectJudges(Owner, b, x)
        /\ \E x \in Seeds : ENABLED selectJudges(Owner, b, x)

\* C19: once a Disputed bounty has had its panel expanded (four judges outside
\* the panel are marked as serving on it), the panel EscrowJudge holds for it has
\* nine members.
C19_ExpandedPanel ==
    \A b \in BountyIds :
        (/\ bounties[b].status = "Disputed"
         /\ Cardinality(ServedOn(b) \ PanelOf(b)) = EXPANDED_PANEL_SIZE - PANEL_SIZE)
            => Len(panels[b].judges) = EXPANDED_PANEL_SIZE


\* ------------------------------------------------------------ registry
\* A specification for JudgeRegistry on its own: the registry deployed with no
\* judge registered, the accounts of Registrants holding JudgeFunds of USDC (and
\* having approved the registry for it), as the fixture of the selection tests
\* mints them.
Registrants == {"j1"}
JudgeFunds  == MINIMUM_STAKE
\* the amounts a judge may pass to increaseStake and withdrawStake, besides the
\* whole of the stake
StakeAmounts == {0, MINIMUM_STAKE}
\* the callers the owner may name in setEscrowJudge
VerdictReporters == {ZeroAddr, Owner}

\* The verdicts recorded for _judge so far leave room for one more of the kind.
VerdictsWithin(_judge, _agreedWithConsensus, maxAgreed, maxMinority) ==
    IF _agreedWithConsensus
    THEN judges[_judge].correctVerdicts < maxAgreed
    ELSE judges[_judge].totalVerdicts - judges[_judge].correctVerdicts < maxMinority

RegistryDeployed(registrants, funds) ==
    /\ now = 0
    /\ balance = [t \in Tokens |->
                    [h \in Holders \cup {JudgeRegistryAddr} |->
                        IF t = USDC /\ h \in registrants THEN funds ELSE 0]]
    /\ DeployedContracts
    /\ judges = [a \in RegistryAccounts |-> ZeroJudge]
    /\ judgeList = << >>
    /\ registryEscrowJudge = EscrowJudgeAddr
    /\ totalActiveJudges = 0
    /\ judgePairHistory = ZeroPairHistory
    /\ judgeServedOnBounty = ZeroServed

InitRegistry == RegistryDeployed(Registrants, JudgeFunds)

NextRegistry ==
    \/ \E m \in 1 .. MaxMonths : Elapse(m)
    \/ \E s \in {Owner, Alice}, a \in VerdictReporters : setEscrowJudge(s, a)
    \/ \E s \in Registrants : register(s)
    \/ \E s \in Registrants \cup {Alice}, a \in StakeAmounts : increaseStake(s, a)
    \/ \E s \in Registrants \cup {Alice} :
          \E a \in StakeAmounts \cup {judges[s].stakedAmount} : withdrawStake(s, a)
    \/ \E s \in {Owner, Alice}, j \in Registrants \cup {Alice}, a \in BOOLEAN :
          /\ VerdictsWithin(j, a, MaxAgreed, MaxMinority)
          /\ recordVerdictResult(s, j, a)
    \/ \E s \in {Owner, Alice}, j \in Registrants \cup {Alice} : applyDecay(s, j)
    \/ \E s \in Registrants \cup {Alice} : reactivate(s)
    \/ \E s \in {Owner, Alice}, j \in Registrants \cup {Alice} : deactivateJudge(s, j)

SpecRegistry == InitRegistry /\ [][NextRegistry]_vars

\* The registry again, with a judge who holds StakeFunds and can top the stake
\* up (the registry tests mint each judge well above MINIMUM_STAKE), followed
\* through few verdicts with the consensus and MaxDissent against it.
StakeFunds == 2 * MINIMUM_STAKE

InitStake == RegistryDeployed(Registrants, StakeFunds)

NextStake ==
    \/ \E m \in 1 .. MaxMonths : Elapse(m)
    \/ \E s \in {Owner, Alice}, a \in VerdictReporters : setEscrowJudge(s, a)
    \/ \E s \in Registrants : register(s)
    \/ \E s \in Registrants \cup {Alice}, a \in StakeAmounts : increaseStake(s, a)
    \/ \E s \in Registrants \cup {Alice} :
          \E a \in StakeAmounts \cup {judges[s].stakedAmount} : withdrawStake(s, a)
    \/ \E s \in {Owner, Alice}, j \in Registrants \cup {Alice}, a \in BOOLEAN :
          /\ VerdictsWithin(j, a, MaxResets, MaxDissent)
          /\ recordVerdictResult(s, j, a)
    \/ \E s \in {Owner, Alice}, j \in Registrants \cup {Alice} : applyDecay(s, j)
    \/ \E s \in Registrants \cup {Alice} : reactivate(s)
    \/ \E s \in {Owner, Alice}, j \in Registrants \cup {Alice} : deactivateJudge(s, j)

SpecStake == InitStake /\ [][NextStake]_vars

\* C20: in every state the registry reaches by register, recordVerdictResult
\* (with the slashing it triggers), applyDecay, withdrawStake, increaseStake,
\* reactivate and deactivateJudge, the reputation of every registered judge lies
\* between MIN_REPUTATION and MAX_REPUTATION and its stake is not negative.
C20_ReputationAndStakeBounds ==
    \A a \in RegistryAccounts :
        judges[a].isRegistered =>
            /\ getReputation(a) >= MIN_REPUTATION
            /\ getReputation(a) <= MAX_REPUTATION
            /\ judges[a].stakedAmount >= 0

\* A judge at the ceiling and with nothing staked: after MaxAgreed verdicts with
\* the consensus (one more than the climb from INITIAL_REPUTATION takes) the
\* reputation stands at MAX_REPUTATION, and the judge, deactivated by the owner,
\* has withdrawn the whole stake.
C20_Witness ==
    \E a \in RegistryAccounts :
        /\ judges[a].isRegistered
        /\ getReputation(a) = MAX_REPUTATION
        /\ judges[a].correctVerdicts = MaxAgreed
        /\ ~judges[a].isActive
        /\ judges[a].stakedAmount = 0

\* C21: for every registered judge, whatever reputation the judge has reached, a
\* recordVerdictResult(judge, false) from the escrow-judge address is accepted
\* (so that thirty disagreements in a row all go through, down to reputation 0).
C21_DisagreementAccepted ==
    \A a \in RegistryAccounts :
        judges[a].isRegistered => ENABLED recordVerdictResult(registryEscrowJudge, a, FALSE)

\* Observations of a registry step on judge a: a verdict was recorded for a; it
\* was one with the consensus.
VerdictRecorded(a) == judges'[a].totalVerdicts = judges[a].totalVerdicts + 1
WithConsensus(a)   == judges'[a].correctVerdicts = judges[a].correctVerdicts + 1

C23_WithdrawBelowMinimum ==
    \A a \in RegistryAccounts :
        (/\ judges[a].isRegistered
         /\ judges[a].isActive
         /\ judges[a].stakedAmount > 0)
            => ENABLED withdrawStake(a, judges[a].stakedAmount)

C26_CreateNeedsPool ==
    /\ [](\A s \in Posters, f \in Fundings :
             ENABLED createBounty(s, f[1], f[2], now + ONE_DAY, 1)
                 => Len(getEligibleJudges) >= MIN_JUDGES)
    /\ [][IF nextBountyId' # nextBountyId
          THEN LET new == bounties'[nextBountyId]
               IN  /\ Len(getEligibleJudges) >= MIN_JUDGES
                   /\ nextBountyId' = nextBountyId + 1
                   /\ bounties[nextBountyId] = ZeroBounty
                   /\ new.status = "Pending"
                   /\ new.amount > 0
                   /\ new.feeAmount
                          = (new.amount * FEE_BASIS_POINTS) \div BASIS_POINTS_DENOMINATOR
                   /\ balance'[new.token][EscrowJudgeAddr]
                          = balance[new.token][EscrowJudgeAddr] + new.amount
                   /\ balance'[new.token][new.poster]
                          = balance[new.token][new.poster] - new.amount
          ELSE \A t \in Tokens :
                   balance'[t][EscrowJudgeAddr] <= balance[t][EscrowJudgeAddr]]_vars

\* A bounty created while six judges were eligible, one of seven registered
\* having been deactivated: Pending, 1000 in escrow, a fee of 20 stored.
C26_Witness ==
    /\ Len(getEligibleJudges) = 6
    /\ Len(judgeList) = 7
    /\ nextBountyId = 1
    /\ bounties[0].status = "Pending"
    /\ bounties[0].amount = 1000
    /\ bounties[0].feeAmount = 20
    /\ balance[USDC][EscrowJudgeAddr] = 1000

\* C27: applyDecay is accepted for every registered judge, whatever time has
\* passed since the judge's last activity and whatever the reputation is.
C27_DecayAccepted ==
    \A a \in RegistryAccounts :
        judges[a].isRegistered => \A s \in {Owner, Alice} : ENABLED applyDecay(s, a)

\* ------------------------------------------------------------ pair history
\* A specification for the pair history of JudgeSelection: the deployment with
\* its five judges and a sixth account, and recordAgreement called by the owner
\* or by another account on the pairs of HistoryPairs, in either order, and on
\* a judge paired with itself.
HistoryPairs ==
    {<<"j1", "j1">>, <<"j1", "j2">>, <<"j2", "j1">>, <<"j1", "j6">>, <<"j6", "j1">>}

NextPairs ==
    \E s \in {Owner, Alice}, p \in HistoryPairs, a \in BOOLEAN :
        recordAgreement(s, p[1], p[2], a)

SpecPairs == Init /\ [][NextPairs]_vars

\* C28: the record of (a, b) equals the record of (b, a) and has
\* agreements <= totalCases; neither counter of any pair ever decreases;
\* recordAgreement of a judge with itself is never accepted; getAgreementRate
\* returns (0, 0) for a pair without history and otherwise totalCases with the
\* largest whole rate whose product with totalCases does not exceed
\* agreements * 100.
C28_PairHistory ==
    /\ [](\A a \in RegistryAccounts, b \in RegistryAccounts :
             LET ha   == judgePairHistory[a][b]
                 rate == getAgreementRate(a, b)
             IN  /\ ha = judgePairHistory[b][a]
                 /\ ha.agreements >= 0
                 /\ ha.agreements <= ha.totalCases
                 /\ rate[2] = ha.totalCases
                 /\ IF ha.totalCases = 0
                    THEN rate[1] = 0
                    ELSE /\ rate[1] * ha.totalCases <= ha.agreements * 100
                         /\ (rate[1] + 1) * ha.totalCases > ha.agreements * 100
                 /\ \A s \in {Owner, Alice}, x \in BOOLEAN :
                        ~ENABLED recordAgreement(s, a, a, x))
    /\ [][\A a \in RegistryAccounts, b \in RegistryAccounts :
             /\ judgePairHistory'[a][b].agreements >= judgePairHistory[a][b].agreements
             /\ judgePairHistory'[a][b].totalCases >= judgePairHistory[a][b].totalCases]_vars

\* Two pairs with history, read from the side that was not named first: j2 and
\* j1 at three agreements in four cases (75), j6 and j1 at two in three (66).
C28_Witness ==
    /\ getAgreementRate("j2", "j1") = <<75, 4>>
    /\ judgePairHistory["j1"]["j2"] = [agreements |-> 3, totalCases |-> 4]
    /\ getAgreementRate("j6", "j1") = <<66, 3>>
    /\ getAgreementRate("j2", "j6") = <<0, 0>>

\* C29: once a bounty is Completed, JudgeRegistry has recorded a verdict result
\* for every member of its panel whose verdict EscrowJudge holds.
C29_SettlementReported ==
    \A b \in BountyIds :
        bounties[b].status = "Completed" =>
            \A j \in PanelOf(b) :
                panels[b].verdicts[j] # "None" => judges[j].totalVerdicts >= 1

\* C30: for every bounty in Reveal whose reveal deadline has passed, whatever
\* votes are recorded, processVerdict is accepted from every account.
C30_RevealAdvances ==
    \A b \in BountyIds :
        (bounties[b].status = "Reveal" /\ now > panels[b].revealDeadline)
            => \A s \in Callers : ENABLED processVerdict(s, b)

\* What a step adds to account a's holding of bounty b's token.
Received(b, a) == balance'[bounties[b].token][a] - balance[bounties[b].token][a]

\* C31: resolveDispute is accepted only from the owner, on a Disputed bounty
\* whose dispute is not resolved, with a verdict other than None; the step that
\* resolves a dispute leaves the bounty Completed and pays as a settlement by
\* that verdict pays: Pass amount - fee to the worker and the fee to the
\* treasury; Fail amount - gas cost to the poster and the gas cost to the
\* treasury (nothing when the amount does not exceed the gas cost); Partial
\* floor(amount * pct / 100) less its fee to the worker, the fee to the treasury
\* and the rest to the poster.
C31_ResolveDispute ==
    /\ [](\A b \in BountyIds, s \in Callers, r \in Resolutions :
             ENABLED resolveDispute(s, b, r[1], r[2])
                 => /\ s = Owner
                    /\ StatusIs(b, "Disputed")
                    /\ ~disputes[b].resolved
                    /\ r[1] # "None")
    /\ [][\A b \in BountyIds :
             (disputes'[b].resolved /\ ~disputes[b].resolved) =>
                 LET bounty  == bounties[b]
                     verdict == disputes'[b].finalVerdict
                     pct     == disputes'[b].finalPartialPercentage
                     gasCost == _estimateGasCost
                     partialAmount == (bounty.amount * pct) \div 100
                     partialFee    == (partialAmount * FEE_BASIS_POINTS)
                                          \div BASIS_POINTS_DENOMINATOR
                 IN  /\ StatusStep(b, "Disputed", "Completed")
                     /\ verdict \in {"Pass", "Fail", "Partial"}
                     /\ verdict = "Pass" =>
                            /\ Received(b, bounty.worker) = bounty.amount - bounty.feeAmount
                            /\ Received(b, treasury) = bounty.feeAmount
                            /\ Received(b, bounty.poster) = 0
                     /\ verdict = "Fail" =>
                            /\ Received(b, bounty.worker) = 0
                            /\ Received(b, bounty.poster) =
                                   IF bounty.amount > gasCost THEN bounty.amount - gasCost ELSE 0
                            /\ Received(b, treasury) =
                                   IF bounty.amount > gasCost THEN gasCost ELSE 0
                     /\ verdict = "Partial" =>
                            /\ Received(b, bounty.worker) = partialAmount - partialFee
                            /\ Received(b, treasury) = partialFee
                            /\ Received(b, bounty.poster) = bounty.amount - partialAmount]_vars

\* A dispute the owner resolved as Partial at 50: the 1000-unit bounty is
\* Completed, the worker holds 490 of it, the treasury 10, the poster 500.
C31_Witness ==
    \E b \in BountyIds :
        /\ StatusIs(b, "Completed")
        /\ disputes[b].resolved
        /\ disputes[b].finalVerdict = "Partial"
        /\ disputes[b].finalPartialPercentage = 50
        /\ bounties[b].amount = 1000
        /\ WorkerPayout(b) = 490
        /\ TreasuryPayout(b) = 10
        /\ PosterRefund(b) = 500

\* C32: submitWork is accepted only on a Pending bounty, at or before its
\* deadline, with a non-zero submission hash and from an account other than the
\* poster; the worker of a bounty changes only in a step from Pending to
\* Submitted, from no worker to a worker other than the poster, so that a
\* worker once set stays and never is the poster.
C32_SubmitWork ==
    /\ [](\A b \in BountyIds :
             /\ \A s \in Callers, h \in ContentHashes :
                    ENABLED submitWork(s, b, h)
                        => /\ StatusIs(b, "Pending")
                           /\ now <= bounties[b].deadline
                           /\ h # 0
                           /\ s # bounties[b].poster
             /\ bounties[b].worker # ZeroAddr
                    => /\ bounties[b].worker # bounties[b].poster
                       /\ bounties[b].status # "Pending")
    /\ [][\A b \in BountyIds :
             bounties'[b].worker # bounties[b].worker
                 => /\ bounties[b].worker = ZeroAddr
                    /\ StatusStep(b, "Pending", "Submitted")
                    /\ bounties'[b].worker # bounties[b].poster
                    /\ bounties'[b].submissionHash # 0
                    /\ now <= bounties[b].deadline]_vars

\* A bounty that has gone on to Reveal with the worker who submitted for it,
\* its submission deadline behind it.
C32_Witness ==
    \E b \in BountyIds :
        /\ StatusIs(b, "Reveal")
        /\ bounties[b].poster = Alice
        /\ bounties[b].worker = Bob
        /\ bounties[b].submissionHash = 1
        /\ now > bounties[b].deadline

\* ------------------------------------------------------------ settlement, one transfer at a time
\* cancelBounty, processVerdict and resolveDispute as the EVM runs them: the
\* function checks its requires and writes storage, then makes its transfers one
\* after the other; each transfer hands control to its recipient, who may call
\* EscrowJudge again before returning; the function ends when the last recipient
\* has returned.  A call that would revert at a later transfer is not started:
\* a reverted transaction leaves no state behind.
Transfer(to, token, amount) == [to |-> to, token |-> token, amount |-> amount]

\* Variant of _executeVerdictTransfers: on Pass the worker is sent the whole
\* amount and the treasury the fee on top of it.
_executeVerdictTransfersFeeOnTop(bounty, _verdict, _partialPercentage) ==
    IF _verdict = "Pass" THEN
        [ok |-> TRUE,
         pending |-> <<Transfer(bounty.worker, bounty.token, bounty.amount),
                       Transfer(treasury, bounty.token, bounty.feeAmount)>>]
    ELSE IF _verdict = "Fail" THEN
        LET gasCost      == _estimateGasCost
            returnAmount == IF bounty.amount > gasCost THEN bounty.amount - gasCost ELSE 0
        IN  [ok |-> TRUE,
             pending |-> IF bounty.amount > gasCost
                         THEN <<Transfer(bounty.poster, bounty.token, returnAmount),
                                Transfer(treasury, bounty.token, gasCost)>>
                         ELSE <<Transfer(bounty.poster, bounty.token, returnAmount)>>]
    ELSE IF _verdict = "Partial" THEN
        IF ~(_partialPercentage > 0 /\ _partialPercentage < 100)
        THEN [ok |-> FALSE, pending |-> <<>>]
        ELSE
        LET partialAmount == MulDiv(bounty.amount, _partialPercentage, 100)
            partialFee    == MulDiv(partialAmount, FEE_BASIS_POINTS, BASIS_POINTS_DENOMINATOR)
            workerAmount  == partialAmount - partialFee
            posterReturn  == bounty.amount - partialAmount
        IN  [ok |-> TRUE,
             pending |-> <<Transfer(bounty.worker, bounty.token, workerAmount),
                           Transfer(bounty.poster, bounty.token, posterReturn),
                           Transfer(treasury, bounty.token, partialFee)>>]
    ELSE [ok |-> TRUE, pending |-> <<>>]

\* The transfers of _executeVerdict, in the order of the code; ok is FALSE when
\* the require of the Partial branch fails.
_executeVerdictTransfers(bounty, _verdict, _partialPercentage) ==
    IF _verdict = "Pass" THEN
        LET workerAmount == bounty.amount - bounty.feeAmount
        IN  [ok |-> TRUE,
             pending |-> <<Transfer(bounty.worker, bounty.token, workerAmount),
                           Transfer(treasury, bounty.token, bounty.feeAmount)>>]
    ELSE IF _verdict = "Fail" THEN
        LET gasCost      == _estimateGasCost
            returnAmount == IF bounty.amount > gasCost THEN bounty.amount - gasCost ELSE 0
        IN  [ok |-> TRUE,
             pending |-> IF bounty.amount > gasCost
                         THEN <<Transfer(bounty.poster, bounty.token, returnAmount),
                                Transfer(treasury, bounty.token, gasCost)>>
                         ELSE <<Transfer(bounty.poster, bounty.token, returnAmount)>>]
    ELSE IF _verdict = "Partial" THEN
        IF ~(_partialPercentage > 0 /\ _partialPercentage < 100)
        THEN [ok |-> FALSE, pending |-> <<>>]
        ELSE
        LET partialAmount == MulDiv(bounty.amount, _partialPercentage, 100)
            partialFee    == MulDiv(partialAmount, FEE_BASIS_POINTS, BASIS_POINTS_DENOMINATOR)
            workerAmount  == partialAmount - partialFee
            posterReturn  == bounty.amount - partialAmount
        IN  [ok |-> TRUE,
             pending |-> <<Transfer(bounty.worker, bounty.token, workerAmount),
                           Transfer(bounty.poster, bounty.token, posterReturn),
                           Transfer(treasury, bounty.token, partialFee)>>]
    ELSE [ok |-> TRUE, pending |-> <<>>]

\* _transferFunds applied to each transfer of a list in turn.
RECURSIVE MakeTransfers(_, _)
MakeTransfers(r, pending) ==
    IF pending = <<>> THEN r
    ELSE MakeTransfers(_transferFunds(r, Head(pending).to, Head(pending).token,
                                      Head(pending).amount),
                       Tail(pending))

\* Whether a call making these transfers runs to its end.
Completes(pending) == MakeTransfers([ok |-> TRUE, bal |-> balance], pending).ok

\* cancelBounty with the transfer made before the status is written
cancelBountyTransferFirst(sender, _bountyId) ==
    LET bounty  == bounties[_bountyId]
        pending == <<Transfer(bounty.poster, bounty.token, bounty.amount)>>
    IN  /\ cancelBountyRequires(sender, _bountyId)
        /\ Completes(pending)
        /\ _status' = ENTERED
        /\ call' = [bounty |-> _bountyId, pending |-> pending, control |-> ZeroAddr]
        /\ UNCHANGED <<now, balance, treasury, judgeRegistry, commitReveal, escrowPaused,
                       nextBountyId, bounties, panels, disputes, crVars, registryVars,
                       selectionVars>>

\* cancelBounty up to its transfer: nonReentrant sets _status, the require is
\* checked and the status written.
cancelBountyEnter(sender, _bountyId) ==
    LET bounty  == bounties[_bountyId]
        pending == <<Transfer(bounty.poster, bounty.token, bounty.amount)>>
    IN  /\ cancelBountyRequires(sender, _bountyId)
        /\ Completes(pending)
        /\ bounties' = [bounties EXCEPT ![_bountyId].status = "Cancelled"]
        /\ _status' = ENTERED
        /\ call' = [bounty |-> _bountyId, pending |-> pending, control |-> ZeroAddr]
        /\ UNCHANGED <<now, balance, treasury, judgeRegistry, commitReveal, escrowPaused,
                       nextBountyId, panels, disputes, crVars, registryVars, selectionVars>>

\* processVerdict up to the first transfer of _executeVerdict; without consensus
\* it makes no transfer and is over in the same step.
processVerdictEnter(sender, _bountyId) ==
    LET bounty == bounties[_bountyId]
        c == Consensus(panels[_bountyId])
        t == _executeVerdictTransfers(bounty, c.verdict, c.pct)
    IN  /\ processVerdictRequires(_bountyId)
        /\ IF c.verdict = "None"
           THEN /\ bounties' = [bounties EXCEPT ![_bountyId].status = "Disputed"]
                /\ disputes' = [disputes EXCEPT ![_bountyId] = _initiateDispute(_bountyId)]
                /\ UNCHANGED <<_status, call>>
           ELSE /\ t.ok
                /\ Completes(t.pending)
                /\ bounties' = [bounties EXCEPT ![_bountyId].status = "Completed",
                                                ![_bountyId].partialPercentage = c.pct]
                /\ _status' = ENTERED
                /\ call' = [bounty |-> _bountyId, pending |-> t.pending, control |-> ZeroAddr]
                /\ UNCHANGED disputes
        /\ UNCHANGED <<now, balance, treasury, judgeRegistry, commitReveal, escrowPaused,
                       nextBountyId, panels, crVars, registryVars, selectionVars>>

\* resolveDispute up to the first transfer of _executeVerdict
resolveDisputeEnter(sender, _bountyId, _verdict, _partialPercentage) ==
    LET bounty == bounties[_bountyId]
        t == _executeVerdictTransfers(bounty, _verdict, _partialPercentage)
    IN  /\ resolveDisputeRequires(sender, _bountyId, _verdict, _partialPercentage)
        /\ t.ok
        /\ Completes(t.pending)
        /\ disputes' = [disputes EXCEPT ![_bountyId].resolved = TRUE,
                                        ![_bountyId].finalVerdict = _verdict,
                                        ![_bountyId].finalPartialPercentage = _partialPercentage]
        /\ bounties' = [bounties EXCEPT ![_bountyId].status = "Completed",
                                        ![_bountyId].partialPercentage = _partialPercentage]
        /\ _status' = ENTERED
        /\ call' = [bounty |-> _bountyId, pending |-> t.pending, control |-> ZeroAddr]
        /\ UNCHANGED <<now, balance, treasury, judgeRegistry, commitReveal, escrowPaused,
                       nextBountyId, panels, crVars, registryVars, selectionVars>>

\* The next _transferFunds of the call in progress: the funds move and the
\* recipient's code runs (the ETH call; a token may call its recipient too).
transferNext ==
    LET t == Head(call.pending)
        r == _transferFunds([ok |-> TRUE, bal |-> balance], t.to, t.token, t.amount)
    IN  /\ _status = ENTERED
        /\ call.control = ZeroAddr
        /\ call.pending # <<>>
        /\ r.ok
        /\ balance' = r.bal
        /\ call' = [call EXCEPT !.pending = Tail(@), !.control = t.to]
        /\ UNCHANGED <<now, treasury, judgeRegistry, commitReveal, escrowPaused, _status,
                       nextBountyId, bounties, panels, disputes, crVars, registryVars,
                       selectionVars>>

\* The recipient's code returns to _transferFunds.
recipientReturns ==
    /\ call.control # ZeroAddr
    /\ call' = [call EXCEPT !.control = ZeroAddr]
    /\ UNCHANGED <<now, balance, treasury, judgeRegistry, commitReveal, escrowPaused, _status,
                   nextBountyId, bounties, panels, disputes, crVars, registryVars,
                   selectionVars>>

\* The function returns after its last transfer: nonReentrant resets _status.
callReturns ==
    /\ _status = ENTERED
    /\ call.control = ZeroAddr
    /\ call.pending = <<>>
    /\ _status' = NOT_ENTERED
    /\ call' = NoCall
    /\ UNCHANGED <<now, balance, treasury, judgeRegistry, commitReveal, escrowPaused,
                   nextBountyId, bounties, panels, disputes, crVars, registryVars,
                   selectionVars>>

\* ------------------------------------------------------------ two bounties
\* EscrowJudge holding up to two bounties at once: bounty 0 posted by Alice with
\* Bob as its worker, bounty 1 by Bob with Alice as its worker.
Ledger == {0, 1}
PosterOf(b) == IF b = 0 THEN Alice ELSE Bob
WorkerOf(b) == IF b = 0 THEN Bob ELSE Alice

\* How far a bounty has come: not created, Pending, or in Reveal with the votes
\* of its panel recorded.
Phases == {"Absent", "Pending", "Reveal"}
\* The panel's votes: unanimous Pass, Fail or Partial 50, or two against two
\* with the fifth judge silent (no supermajority).
SettleVotes ==
    {[j \in JudgeAddrs |-> <<"Pass", 0>>],
     [j \in JudgeAddrs |-> <<"Fail", 0>>],
     [j \in JudgeAddrs |-> <<"Partial", 50>>],
     [j \in JudgeAddrs |-> IF j \in {"j1", "j2"} THEN <<"Pass", 0>>
                           ELSE IF j \in {"j3", "j4"} THEN <<"Fail", 0>>
                           ELSE Silent]}
SettleCases == [phase : Phases, f : Fundings, vote : SettleVotes]

\* The records of bounty b in case c, at a time when Pending bounties may still
\* take a submission and the reveal deadline of the others has been reached.
CaseBounty(b, c) ==
    IF c.phase = "Absent" THEN ZeroBounty
    ELSE IF c.phase = "Pending"
    THEN [poster |-> PosterOf(b), worker |-> ZeroAddr, token |-> c.f[1], amount |-> c.f[2],
          deadline |-> 3 * ONE_DAY, judgeDeadline |-> 0,
          status |-> "Pending", requirementsHash |-> 1, submissionHash |-> 0,
          partialPercentage |-> 0, feeAmount |-> FeeOf(c.f[2])]
    ELSE [poster |-> PosterOf(b), worker |-> WorkerOf(b), token |-> c.f[1], amount |-> c.f[2],
          deadline |-> ONE_DAY, judgeDeadline |-> ONE_DAY + ONE_DAY,
          status |-> "Reveal", requirementsHash |-> 1, submissionHash |-> 1,
          partialPercentage |-> 0, feeAmount |-> FeeOf(c.f[2])]

CasePanel(c) ==
    LET revealed == {j \in JudgeAddrs : c.vote[j] # Silent}
    IN  IF c.phase # "Reveal" THEN ZeroPanel
        ELSE [judges |-> TallyPanel, commitDeadline |-> ONE_DAY,
              revealDeadline |-> ONE_DAY + ONE_DAY,
              commitPhaseComplete |-> FALSE, revealPhaseComplete |-> revealed = JudgeAddrs,
              hasCommitted |-> [a \in Voters |-> FALSE],
              hasRevealed |-> [a \in Voters |-> a \in revealed],
              verdicts |-> [a \in Voters |-> IF a \in revealed THEN c.vote[a][1] ELSE "None"],
              partialPercentages |-> [a \in Voters |-> IF a \in revealed THEN c.vote[a][2]
                                                       ELSE 0]]

CaseCommits(c) ==
    LET revealed == {j \in JudgeAddrs : c.vote[j] # Silent}
    IN  IF c.phase # "Reveal" THEN ZeroBountyCommits
        ELSE [commits |-> [a \in Voters |->
                            IF a \notin JudgeAddrs THEN ZeroCommit
                            ELSE IF a \in revealed
                                 THEN [commitHash |-> Hash(c.vote[a][1], c.vote[a][2], TallySalt),
                                       exists |-> TRUE]
                            ELSE [commitHash |-> Hash("Pass", 0, TallySalt), exists |-> TRUE]],
              reveals |-> [a \in Voters |->
                            IF a \in revealed
                            THEN [verdict |-> c.vote[a][1], partialPercentage |-> c.vote[a][2],
                                  salt |-> TallySalt, exists |-> TRUE]
                            ELSE ZeroReveal],
              commitCount |-> Cardinality(JudgeAddrs),
              revealCount |-> Cardinality(revealed),
              commitPhaseActive |-> FALSE,
              revealPhaseActive |-> revealed # JudgeAddrs]

\* What bounty b locked of token t in case c.
Locked(c, t) == IF c.phase # "Absent" /\ c.f[1] = t THEN c.f[2] ELSE 0

\* EscrowJudge with its bounties in the cases cs, on the second day, every
\* amount locked still held.
LedgerState(cs) ==
    /\ now = ONE_DAY + ONE_DAY
    /\ balance = [t \in Tokens |->
                    [h \in Holders |->
                        IF h = EscrowJudgeAddr THEN Locked(cs[0], t) + Locked(cs[1], t)
                        ELSE IF h = PosterOf(0) THEN InitialFunds - Locked(cs[0], t)
                        ELSE IF h = PosterOf(1) THEN InitialFunds - Locked(cs[1], t)
                        ELSE 0]]
    /\ treasury = TreasuryAddr
    /\ judgeRegistry = JudgeRegistryAddr
    /\ commitReveal = CommitRevealAddr
    /\ escrowPaused = FALSE
    /\ _status = NOT_ENTERED
    /\ call = NoCall
    /\ nextBountyId = IF cs[1].phase = "Absent" THEN 1 ELSE 2
    /\ bounties = [b \in Ledger |-> CaseBounty(b, cs[b])]
    /\ panels = [b \in Ledger |-> CasePanel(cs[b])]
    /\ disputes = [b \in Ledger |-> ZeroDispute]
    /\ escrowJudge = EscrowJudgeAddr
    /\ crPaused = FALSE
    /\ bountyCommits = [b \in Ledger |-> CaseCommits(cs[b])]
    /\ judges = [a \in RegistryAccounts |->
                    IF a \in JudgeAddrs THEN RegisteredJudge(0) ELSE ZeroJudge]
    /\ judgeList = FixtureJudges
    /\ registryEscrowJudge = EscrowJudgeAddr
    /\ totalActiveJudges = Cardinality(JudgeAddrs)
    /\ judgePairHistory = ZeroPairHistory
    /\ judgeServedOnBounty = ZeroServed

InitSettle ==
    \E cs \in [Ledger -> SettleCases] :
        /\ cs[0].phase # "Absent"
        /\ LedgerState(cs)

\* Transactions start only when none is running; while a recipient holds
\* control it may call submitWork, the one function of this specification
\* without nonReentrant.
NextSettle ==
    \/ \E d \in TimeSteps : call = NoCall /\ Tick(d)
    \/ \E s \in {Alice, Bob}, f \in Fundings, d \in Deadlines :
          call = NoCall /\ createBounty(s, f[1], f[2], d, 1)
    \/ \E s \in {Alice, Bob}, b \in Ledger :
          call = NoCall /\ submitWork(s, b, 1)
    \/ \E s \in {Alice, Bob}, b \in Ledger : cancelBountyEnter(s, b)
    \/ \E s \in {Owner}, b \in Ledger : processVerdictEnter(s, b)
    \/ \E s \in {Owner, Alice}, b \in Ledger, r \in Resolutions :
          resolveDisputeEnter(s, b, r[1], r[2])
    \/ transferNext
    \/ \E b \in Ledger : call.control # ZeroAddr /\ submitWork(call.control, b, 1)
    \/ recipientReturns
    \/ callReturns

SpecSettle == InitSettle /\ [][NextSettle]_vars

\* C33: while cancelBounty, processVerdict or resolveDispute makes its
\* transfers, the bounty it settles already has its final status (Cancelled or
\* Completed) and the reentrancy flag is set, so that every call of these three
\* functions, by a recipient holding control or by anyone, is rejected; from the
\* first transfer to the return of the function nothing of the settled bounty
\* changes, and the balances change only by the next transfer of the call.
C33_StatusBeforeTransfers ==
    /\ [](call # NoCall =>
            /\ _status = ENTERED
            /\ bounties[call.bounty].status \in {"Completed", "Cancelled"}
            /\ \A s \in Callers, b \in Ledger :
                  /\ ~ENABLED cancelBountyEnter(s, b)
                  /\ ~ENABLED processVerdictEnter(s, b)
                  /\ \A r \in Resolutions : ~ENABLED resolveDisputeEnter(s, b, r[1], r[2]))
    /\ [][call # NoCall =>
            /\ bounties'[call.bounty] = bounties[call.bounty]
            /\ panels'[call.bounty] = panels[call.bounty]
            /\ disputes'[call.bounty] = disputes[call.bounty]
            /\ balance' # balance =>
                  /\ call.control = ZeroAddr
                  /\ call.pending # <<>>
                  /\ call'.pending = Tail(call.pending)
                  /\ balance' = _transferFunds([ok |-> TRUE, bal |-> balance],
                                               Head(call.pending).to,
                                               Head(call.pending).token,
                                               Head(call.pending).amount).bal]_vars

\* The poster of bounty 0 holds control after the second of three transfers of
\* a Partial settlement, while bounty 1 is open for a submission from it.
C33_Witness ==
    /\ call # NoCall
    /\ call.bounty = 0
    /\ call.control = Alice
    /\ Len(call.pending) = 1
    /\ bounties[0].status = "Completed"
    /\ bounties[1].status = "Pending"

\* The panel of bounty b once judges x and y have revealed the votes t and u,
\* whichever of the two came first.
BothRevealed(b, x, t, y, u) ==
    LET recorded == [panels[b] EXCEPT
                        !.verdicts[x] = t[1], !.verdicts[y] = u[1],
                        !.partialPercentages[x] = t[2], !.partialPercentages[y] = u[2],
                        !.hasRevealed[x] = TRUE, !.hasRevealed[y] = TRUE]
    IN  [recorded EXCEPT !.revealPhaseComplete =
            IF \A i \in DOMAIN recorded.judges : recorded.hasRevealed[recorded.judges[i]]
            THEN TRUE ELSE @]

\* The commits of bounty b once judges x and y have committed g and h.
BothCommitted(b, x, g, y, h) ==
    [bountyCommits[b].commits EXCEPT ![x] = [commitHash |-> g, exists |-> TRUE],
                                     ![y] = [commitHash |-> h, exists |-> TRUE]]

\* C34: a reveal is accepted only in status Reveal; once a reveal has been
\* accepted no commit is; outside Reveal no reveal and no penalty vote is
\* accepted, and a panel's votes change only while the bounty is and stays in
\* Reveal; and whenever two different judges' reveals (commits) are accepted one
\* after the other, they are accepted in the other order too and leave the same
\* panel, hence the same tally (the same commits and the same panel).
C34_CommitRevealOrder ==
    /\ [](\A b \in BountyIds :
            /\ \A s \in Voters, v \in Verdict, p \in Percentages, x \in Salts :
                  ENABLED revealVerdict(s, b, v, p, x) => StatusIs(b, "Reveal")
            /\ (\E j \in Voters : bountyCommits[b].reveals[j].exists)
                  => \A s \in Voters : \A h \in CommitHashes(s) :
                        ~ENABLED submitCommit(s, b, h)
            /\ ~StatusIs(b, "Reveal")
                  => /\ \A s \in Voters, v \in Verdict, p \in Percentages, x \in Salts :
                           ~ENABLED revealVerdict(s, b, v, p, x)
                     /\ \A s \in Callers, j \in JudgeAddrs : ~ENABLED penalizeNoReveal(s, b, j)
            /\ \A x \in JudgeAddrs : \A y \in JudgeAddrs \ {x} :
                  /\ \A t \in VoteTriples(x), u \in VoteTriples(y) :
                        (ENABLED (/\ revealVerdict(x, b, t[1], t[2], t[3])
                                  /\ (ENABLED revealVerdict(y, b, u[1], u[2], u[3]))'))
                        => /\ ENABLED (/\ revealVerdict(x, b, t[1], t[2], t[3])
                                       /\ (ENABLED (/\ revealVerdict(y, b, u[1], u[2], u[3])
                                                    /\ panels'[b] = BothRevealed(b, x, t, y, u)))')
                           /\ ENABLED (/\ revealVerdict(y, b, u[1], u[2], u[3])
                                       /\ (ENABLED (/\ revealVerdict(x, b, t[1], t[2], t[3])
                                                    /\ panels'[b] = BothRevealed(b, x, t, y, u)))')
                  /\ \A g \in CommitHashes(x), h \in CommitHashes(y) :
                        (ENABLED (/\ submitCommit(x, b, g)
                                  /\ (ENABLED submitCommit(y, b, h))'))
                        => /\ ENABLED (/\ submitCommit(x, b, g)
                                       /\ (ENABLED (/\ submitCommit(y, b, h)
                                                    /\ panels'[b] = panels[b]
                                                    /\ bountyCommits'[b].commits
                                                          = BothCommitted(b, x, g, y, h)))')
                           /\ ENABLED (/\ submitCommit(y, b, h)
                                       /\ (ENABLED (/\ submitCommit(x, b, g)
                                                    /\ panels'[b] = panels[b]
                                                    /\ bountyCommits'[b].commits
                                                          = BothCommitted(b, x, g, y, h)))'))
    /\ [][\A b \in BountyIds :
             (/\ panels[b].judges # <<>>
              /\ \/ panels'[b].verdicts # panels[b].verdicts
                 \/ panels'[b].hasRevealed # panels[b].hasRevealed)
                 => /\ StatusIs(b, "Reveal")
                    /\ bounties'[b].status = "Reveal"]_vars

\* Two judges have revealed different votes, a third has committed and not yet
\* revealed, and the bounty is in Reveal.
C34_Witness ==
    \E b \in BountyIds :
        /\ StatusIs(b, "Reveal")
        /\ bountyCommits[b].reveals["j5"].exists
        /\ bountyCommits[b].reveals["j5"].verdict = "Partial"
        /\ bountyCommits[b].reveals["j1"].exists
        /\ panels[b].verdicts["j1"] = "Pass"
        /\ bountyCommits[b].commits["j2"].exists
        /\ ~bountyCommits[b].reveals["j2"].exists

\* The judges of bounty b whose revealed vote is Partial, and the sum of the
\* percentages of a set of them.
PartialVoters(b) ==
    {j \in Range(panels[b].judges) : panels[b].hasRevealed[j] /\ panels[b].verdicts[j] = "Partial"}
RECURSIVE SumPercentages(_, _)
SumPercentages(b, S) ==
    IF S = {} THEN 0
    ELSE LET j == CHOOSE x \in S : TRUE
         IN  panels[b].partialPercentages[j] + SumPercentages(b, S \ {j})
AveragePartial(b) == SumPercentages(b, PartialVoters(b)) \div Cardinality(PartialVoters(b))

\* C35: when the Partial votes reach the supermajority and the reveal deadline
\* has passed, processVerdict settles as soon as the floor of the average of the
\* Partial voters' percentages lies strictly between 0 and 100; the step that
\* settles stores that average as the bounty's percentage and pays, with
\* partialAmount = floor(amount * pct / 100) and fee = floor(partialAmount *
\* 200 / 10000), partialAmount - fee to the worker, the fee to the treasury and
\* amount - partialAmount to the poster, the three adding up to the amount.
C35_PartialSettlement ==
    /\ [](\A b \in BountyIds :
            (/\ RevealOver(b)
             /\ ~escrowPaused
             /\ Cardinality(PartialVoters(b)) >= SUPERMAJORITY_THRESHOLD
             /\ AveragePartial(b) > 0
             /\ AveragePartial(b) < 100)
                => \A s \in {Owner, Bob} : ENABLED processVerdict(s, b))
    /\ [][\A b \in BountyIds :
             (/\ StatusStep(b, "Reveal", "Completed")
              /\ Cardinality(PartialVoters(b)) >= SUPERMAJORITY_THRESHOLD)
                 => LET pct           == AveragePartial(b)
                        amount        == bounties[b].amount
                        partialAmount == (amount * pct) \div 100
                        fee           == (partialAmount * 200) \div 10000
                    IN  /\ bounties'[b].partialPercentage = pct
                        /\ Received(b, bounties[b].worker) = partialAmount - fee
                        /\ Received(b, treasury) = fee
                        /\ Received(b, bounties[b].poster) = amount - partialAmount
                        /\ Received(b, EscrowJudgeAddr) = 0 - amount]_vars

\* Four Partial votes of 50, 50, 50 and 0 beside a Pass: the 1000-unit bounty is
\* settled at 37 per cent, 363 to the worker, 7 to the treasury, 630 to the poster.
C35_Witness ==
    \E b \in BountyIds :
        /\ StatusIs(b, "Completed")
        /\ Cardinality(PartialVoters(b)) = 4
        /\ SumPercentages(b, PartialVoters(b)) = 150
        /\ bounties[b].partialPercentage = 37
        /\ bounties[b].amount = 1000
        /\ WorkerPayout(b) = 363
        /\ TreasuryPayout(b) = 7
        /\ PosterRefund(b) = 630

\* The verdict a Completed bounty was settled by: the arbitrator's when its
\* dispute is resolved, the panel's consensus otherwise.
SettledBy(b) ==
    IF disputes[b].resolved THEN disputes[b].finalVerdict ELSE Consensus(panels[b]).verdict

\* C36: a bounty settled as Fail, whatever its amount and asset, has paid
\* nothing to the worker, the fixed deduction of _estimateGasCost to the
\* treasury and the locked amount less that deduction to the poster.
C36_FailRefund ==
    \A b \in BountyIds :
        (StatusIs(b, "Completed") /\ SettledBy(b) = "Fail")
            => /\ WorkerPayout(b) = 0
               /\ TreasuryPayout(b) = _estimateGasCost
               /\ PosterRefund(b) = bounties[b].amount - _estimateGasCost

\* The judges penalizeNoReveal has been applied to for bounty b: theirs is the
\* synthetic reveal record (Fail, salt 0) that only penalizeNoReveal writes.
Penalized(b) ==
    {j \in JudgeAddrs : /\ bountyCommits[b].reveals[j].exists
                        /\ bountyCommits[b].reveals[j].verdict = "Fail"
                        /\ bountyCommits[b].reveals[j].salt = 0}

\* C37: a judge penalizeNoReveal has been applied to holds less stake in the
\* JudgeRegistry than the MINIMUM_STAKE it registered with (no other call of
\* this specification touches a stake).
C37_NoRevealPenalty ==
    \A b \in BountyIds : \A j \in Penalized(b) : judges[j].stakedAmount < MINIMUM_STAKE

\* What EscrowJudge owes in token t: the amounts of the created bounties of
\* that token that are neither Completed nor Cancelled, and the transfers the
\* call in progress has yet to make.
RECURSIVE OpenAmounts(_, _)
OpenAmounts(B, t) ==
    IF B = {} THEN 0
    ELSE LET b == CHOOSE x \in B : TRUE
         IN  (IF Created(b) /\ bounties[b].token = t
                 /\ bounties[b].status \notin {"Completed", "Cancelled"}
              THEN bounties[b].amount ELSE 0) + OpenAmounts(B \ {b}, t)
RECURSIVE PendingAmounts(_, _)
PendingAmounts(pending, t) ==
    IF pending = <<>> THEN 0
    ELSE (IF Head(pending).token = t THEN Head(pending).amount ELSE 0)
         + PendingAmounts(Tail(pending), t)

\* A step of a settlement or cancellation of bounty b: the call that makes the
\* bounty Completed or Cancelled, one of its transfers, or its return.
SettlingStep(b) ==
    \/ /\ bounties[b].status \notin {"Completed", "Cancelled"}
       /\ bounties'[b].status \in {"Completed", "Cancelled"}
    \/ /\ call # NoCall
       /\ call.bounty = b
       /\ call' # call
       /\ call.control = ZeroAddr

\* C38: for each asset EscrowJudge holds at least the amounts of its open
\* bounties of that asset plus the transfers still to be made by a call in
\* progress; hence a cancellation or settlement whose requires hold is accepted
\* and each of its transfers goes through, in every interleaving with calls on
\* the other bounty; and every step of a cancellation or settlement leaves the
\* record, panel, dispute and commit-reveal records of every other bounty
\* unchanged.
C38_EscrowSolvency ==
    /\ [](/\ \A t \in Tokens :
                balance[t][EscrowJudgeAddr]
                    >= OpenAmounts(Ledger, t) + PendingAmounts(call.pending, t)
          /\ \A b \in Ledger :
                /\ \A s \in {Alice, Bob} :
                      cancelBountyRequires(s, b) => ENABLED cancelBountyEnter(s, b)
                /\ (/\ processVerdictRequires(b)
                    /\ Consensus(panels[b]).verdict = "Partial"
                          => /\ Consensus(panels[b]).pct > 0
                             /\ Consensus(panels[b]).pct < 100)
                      => ENABLED processVerdictEnter(Owner, b)
                /\ \A r \in Resolutions :
                      (/\ resolveDisputeRequires(Owner, b, r[1], r[2])
                       /\ r[1] = "Partial" => (r[2] > 0 /\ r[2] < 100))
                          => ENABLED resolveDisputeEnter(Owner, b, r[1], r[2])
          /\ (call # NoCall /\ call.control = ZeroAddr /\ call.pending # <<>>)
                => ENABLED transferNext)
    /\ [][\A b \in Ledger :
             SettlingStep(b) =>
                \A o \in Ledger \ {b} :
                    /\ bounties'[o] = bounties[o]
                    /\ panels'[o] = panels[o]
                    /\ disputes'[o] = disputes[o]
                    /\ bountyCommits'[o] = bountyCommits[o]]_vars

\* Two ETH bounties, the first settled and paid out, the second still in Reveal
\* with its votes, the escrow holding exactly the second one's amount.
C38_Witness ==
    /\ call = NoCall
    /\ bounties[0].status = "Completed"
    /\ bounties[1].status = "Reveal"
    /\ bounties[0].token = ETH
    /\ bounties[1].token = ETH
    /\ SettledBy(0) = "Pass"
    /\ balance[ETH][EscrowJudgeAddr] = bounties[1].amount
    /\ balance[ETH][Bob] = InitialFunds - bounties[1].amount
                              + bounties[0].amount - bounties[0].feeAmount

\* ------------------------------------------------------------ two judges
\* The registry with two judges side by side, each holding StakeFunds: the
\* first is followed through one verdict with the consensus and MaxStreak
\* against it and may top its stake up, the second registers, withdraws and is
\* deactivated and reactivated meanwhile.
Roster == {"j1", "j2"}
Reported == {"j1"}

InitRoster == RegistryDeployed(Roster, StakeFunds)

NextRoster ==
    \/ \E m \in 1 .. MaxMonths : Elapse(m)
    \/ setEscrowJudge(Owner, Owner)
    \/ \E s \in Roster : register(s)
    \/ \E s \in Reported : increaseStake(s, MINIMUM_STAKE)
    \/ \E s \in Roster : withdrawStake(s, judges[s].stakedAmount)
    \/ \E j \in Reported, a \in BOOLEAN :
          /\ VerdictsWithin(j, a, 1, MaxStreak)
          /\ recordVerdictResult(Owner, j, a)
    \/ \E j \in Roster : applyDecay(Owner, j)
    \/ \E s \in Roster : reactivate(s)
    \/ \E j \in Roster : deactivateJudge(Owner, j)

SpecRoster == InitRoster /\ [][NextRoster]_vars

\* The registered judges whose isActive flag is set, and those whose flag a
\* step sets or clears.
ActiveJudges == {a \in RegistryAccounts : judges[a].isRegistered /\ judges[a].isActive}
Activated    == {a \in RegistryAccounts : ~judges[a].isActive /\ judges'[a].isActive}
Deactivated  == {a \in RegistryAccounts : judges[a].isActive /\ ~judges'[a].isActive}

\* C39: totalActiveJudges is the number of registered judges whose isActive
\* flag is set; a step that sets a judge's flag (register, reactivate) adds
\* exactly one, a step that clears it (slash, low reputation, decay, the
\* owner's deactivateJudge) subtracts exactly one, no other step changes the
\* count; and the owner's deactivateJudge on a registered inactive judge is
\* accepted and changes nothing.
C39_ActiveCount ==
    /\ [](/\ totalActiveJudges = Cardinality(ActiveJudges)
          /\ \A j \in Roster :
                (judges[j].isRegistered /\ ~judges[j].isActive)
                    => /\ ENABLED (deactivateJudge(Owner, j) /\ UNCHANGED vars)
                       /\ ~ENABLED (deactivateJudge(Owner, j) /\ vars' # vars))
    /\ [][/\ Cardinality(Activated) + Cardinality(Deactivated) <= 1
          /\ totalActiveJudges' = totalActiveJudges + Cardinality(Activated)
                                     - Cardinality(Deactivated)]_vars

\* Both judges were active; the first has been deactivated by its third verdict
\* in a row against the consensus, the second is still active and counted.
C39_Witness ==
    /\ totalActiveJudges = 1
    /\ judges["j1"].isRegistered
    /\ ~judges["j1"].isActive
    /\ judges["j1"].stakedAmount < MINIMUM_STAKE
    /\ judges["j1"].stakedAmount > 0
    /\ judges["j2"].isActive

\* The sum of stakedAmount over a set of judges.
RECURSIVE TotalStaked(_)
TotalStaked(S) ==
    IF S = {} THEN 0
    ELSE LET j == CHOOSE x \in S : TRUE
         IN  (IF judges[j].isRegistered THEN judges[j].stakedAmount ELSE 0)
                + TotalStaked(S \ {j})

\* C40: the USDC held by JudgeRegistry is the sum of stakedAmount over the
\* registered judges, after every register, increaseStake, withdrawStake and
\* slash; and a registered inactive judge with a stake can withdraw all of it:
\* the call is accepted and moves the whole recorded stake to the judge.
C40_StakeAccounting ==
    /\ [](/\ balance[USDC][JudgeRegistryAddr] = TotalStaked(RegistryAccounts)
          /\ \A j \in Roster :
                (judges[j].isRegistered /\ ~judges[j].isActive /\ judges[j].stakedAmount > 0)
                    => ENABLED withdrawStake(j, judges[j].stakedAmount))
    /\ [][\A j \in Roster :
             (judges[j].stakedAmount > 0 /\ judges'[j].stakedAmount = 0)
                 => /\ ~judges[j].isActive
                    /\ balance'[USDC][j] = balance[USDC][j] + judges[j].stakedAmount
                    /\ balance'[USDC][JudgeRegistryAddr]
                          = balance[USDC][JudgeRegistryAddr] - judges[j].stakedAmount]_vars

\* The first judge has been slashed a tenth of its stake, which the owner now
\* holds, has since withdrawn nothing, and the registry holds what is left of
\* it beside the second judge's stake.
C40_Witness ==
    /\ judges["j1"].stakedAmount = MINIMUM_STAKE - MINIMUM_STAKE \div 10
    /\ judges["j2"].stakedAmount = MINIMUM_STAKE
    /\ balance[USDC][Owner] = MINIMUM_STAKE \div 10
    /\ balance[USDC][JudgeRegistryAddr] = 2 * MINIMUM_STAKE - MINIMUM_STAKE \div 10

=============================================================================
